---- MODULE Spec2Model ----
(***************************************************************************)
(* A model of the xmsconan build helpers:                                  *)
(*   - the profile parser  build_library._parse_profile_options            *)
(*   - the configuration matrix generators                                 *)
(*       package_tools.packager.XmsConanPackager.generate_configurations   *)
(*       conan2_helpers.generate_configurations                            *)
(*   - create_build_profile of both, and XmsConanPackager.run              *)
(*   - the build driver build_library.py and the renderer                  *)
(*       build_file_generator.render_template_with_toml, with the command  *)
(*       lines of both scripts                                             *)
(* Python strings are TLA+ strings; a character is a string of length 1.   *)
(* A Python dict is a function whose DOMAIN is its key set.                *)
(***************************************************************************)
EXTENDS Integers, Sequences, FiniteSets, TLC

VARIABLES
    exists,    \* the absolute paths that are files
    pool,      \* the environment: path -> the raw lines a read of that file may give
    limit,     \* the environment: path -> the most lines the file has
    text,      \* path -> the raw lines read from the file so far
    top,       \* the profile_path argument of the top-level call
    stack,     \* the call stack of _parse_profile_options, innermost frame last
    visited,   \* the shared `visited` set of absolute paths
    result,    \* the map returned by the top-level call
    pstate,    \* "idle" before the call, "running", "done" after it returned
    opened,    \* history: how many times each absolute path was opened for reading
    steps,     \* history: the number of parser steps taken by the call
    impl,      \* which generate_configurations runs: "packager" or "conan2_helpers"
    arg,       \* its platform argument: <<>> is None, <<p>> the string p
    host,      \* platform.system().lower() of the running machine
    env,       \* the process environment: name -> <<>> (unset) or <<value>>
    gpc,       \* position in generate_configurations
    gi,        \* index of the current loop iteration
    locals,    \* the values read from the environment
    combinations,              \* the base list, each entry refers to its dicts in heap
    heap,                      \* the nested dict objects: reference -> dict
    wchar_t_updated_builds,    \* the wide-char overlay
    pybind_updated_builds,     \* the binding overlay
    testing_updated_builds,    \* the testing overlay
    gresult,   \* the returned list
    gerr,      \* the exception that left generate_configurations, "none" if none
    bvalue,    \* the value argument of _parse_bool_option: <<>> is None, <<s>> a string
    ballow,    \* its allow_string_aliases argument
    breturn,   \* what the call returned: <<>> before the return
    args,      \* the parsed command line of the build driver (argparse Namespace)
    bundled,   \* the file names found under the profiles directory of the package
    which,     \* shutil.which: tool name -> <<>> (None) or <<path>>
    dirs,      \* the absolute paths that are directories
    dentry,    \* the function of the build driver that was called: "main", ...
    dpc,       \* position in the build driver
    conan_cmd,         \* main: the list conan_install returned
    my_cmake_options,  \* main: the list get_cmake_options returned
    cmake_cmd,         \* main: the list run_cmake returned
    calls,     \* history: the subprocess.run calls, each with its exit code
    derr,      \* the exception that left the function: <<>> or <<[type, msg]>>
    stderr,    \* what the process printed on the error stream
    dexit,     \* the exit code of the process: <<>> while it runs
    rargs,     \* the arguments of the render_template_with_toml call
    contents,  \* the files the renderer sees: absolute path -> content
    folders,   \* the directories the renderer sees: absolute paths
    rpc,       \* position in render_template_with_toml
    toml_data, \* the data mapping
    template_files,   \* the sorted template paths
    ri,        \* index of the template the loop is at
    written,   \* history: the files written, each with its content
    rerr,      \* the exception that left the call: <<>> or <<[type, msg]>>
    argv,      \* sys.argv[1:] of the process, read by argparse
    tool,      \* the environment: the configurations for which `conan create` fails
    kpc,       \* position in XmsConanPackager.run, and in create_build_profile
    built,     \* history: the subprocess.call calls of run, each with its exit code
    failing_configurations,   \* run: the numbers of the configurations that failed
    kerr,      \* the exception that left run: <<>> or <<[type, msg]>>
    profile_path,  \* what create_build_profile returned: <<>> is None
    configuration  \* the argument of create_build_profile: <<>> before the call

parseVars == <<exists, pool, limit, text, top, stack, visited, result, pstate, opened, steps>>

genVars == <<impl, arg, host, env, gpc, gi, locals, combinations, heap,
             wchar_t_updated_builds, pybind_updated_builds, testing_updated_builds,
             gresult, gerr>>

boolVars == <<bvalue, ballow, breturn>>

driverVars == <<args, bundled, which, dirs, dentry, dpc, conan_cmd, my_cmake_options,
                cmake_cmd, calls, derr, stderr, dexit>>

renderVars == <<rargs, contents, folders, rpc, toml_data, template_files, ri, written, rerr>>

packVars == <<tool, kpc, built, failing_configurations, kerr, profile_path, configuration>>

\* what the parser leaves alone, and what the generator leaves alone
notParseVars == <<genVars, boolVars, driverVars, renderVars, packVars, argv>>
notGenVars == <<parseVars, boolVars, driverVars, renderVars, packVars, argv>>

vars == <<parseVars, genVars, boolVars, driverVars, renderVars, packVars, argv>>

----------------------------------------------------------------------------
(* Python str helpers *)

Char(s, i) == SubSeq(s, i, i)

\* str.strip() removes these characters at both ends
IsSpace(c) == c \in {" ", "\t", "\n", "\r"}

RECURSIVE LStrip(_)
LStrip(s) == IF Len(s) > 0 /\ IsSpace(Char(s, 1)) THEN LStrip(Tail(s)) ELSE s

RECURSIVE RStrip(_)
RStrip(s) ==
    IF Len(s) > 0 /\ IsSpace(Char(s, Len(s))) THEN RStrip(SubSeq(s, 1, Len(s) - 1)) ELSE s

Strip(s) == RStrip(LStrip(s))

UpperAlpha == "ABCDEFGHIJKLMNOPQRSTUVWXYZ"
LowerAlpha == "abcdefghijklmnopqrstuvwxyz"

\* upper-case letter -> lower-case letter
LowerMap ==
    [c \in {Char(UpperAlpha, i) : i \in 1..Len(UpperAlpha)} |->
        Char(LowerAlpha, CHOOSE i \in 1..Len(UpperAlpha) : Char(UpperAlpha, i) = c)]

LowerChar(c) == IF c \in DOMAIN LowerMap THEN LowerMap[c] ELSE c

RECURSIVE Lower(_)
Lower(s) == IF Len(s) = 0 THEN s ELSE LowerChar(Char(s, 1)) \o Lower(Tail(s))

StartsWith(s, p) == Len(s) >= Len(p) /\ SubSeq(s, 1, Len(p)) = p

EndsWith(s, p) == Len(s) >= Len(p) /\ SubSeq(s, Len(s) - Len(p) + 1, Len(s)) = p

RECURSIVE FindFrom(_, _, _)
FindFrom(s, c, i) ==
    IF i > Len(s) THEN 0 ELSE IF Char(s, i) = c THEN i ELSE FindFrom(s, c, i + 1)

\* str.find for a single character, 1-based; 0 when absent
Find(s, c) == FindFrom(s, c, 1)

\* the `in` operator for a single character
Contains(s, c) == Find(s, c) # 0

\* line.split('=', 1): the text before and after the first '='
SplitFirst(s, c) ==
    LET i == Find(s, c) IN <<SubSeq(s, 1, i - 1), SubSeq(s, i + 1, Len(s))>>

RECURSIVE SplitOn(_, _)
SplitOn(s, c) ==
    LET i == Find(s, c) IN
    IF i = 0 THEN <<s>> ELSE <<SubSeq(s, 1, i - 1)>> \o SplitOn(SubSeq(s, i + 1, Len(s)), c)

----------------------------------------------------------------------------
(* os.path helpers (POSIX) *)

\* the process working directory, where the profiles live
Cwd == "/p"

IsAbs(p) == StartsWith(p, "/")

PathJoin(a, b) ==
    IF IsAbs(b) THEN b
    ELSE IF a = "" \/ EndsWith(a, "/") THEN a \o b
    ELSE a \o "/" \o b

RECURSIVE NormParts(_, _)
NormParts(parts, acc) ==
    IF parts = <<>> THEN acc
    ELSE LET p == Head(parts) IN
         IF p = "" \/ p = "." THEN NormParts(Tail(parts), acc)
         ELSE IF p = ".."
              THEN NormParts(Tail(parts),
                             IF acc = <<>> THEN acc ELSE SubSeq(acc, 1, Len(acc) - 1))
              ELSE NormParts(Tail(parts), Append(acc, p))

RECURSIVE JoinParts(_)
JoinParts(parts) ==
    IF parts = <<>> THEN "" ELSE "/" \o Head(parts) \o JoinParts(Tail(parts))

\* os.path.normpath of an absolute path
NormPath(p) ==
    LET parts == NormParts(SplitOn(p, "/"), <<>>) IN
    IF parts = <<>> THEN "/" ELSE JoinParts(parts)

Abspath(p) == NormPath(PathJoin(Cwd, p))

RECURSIVE LastSlash(_)
LastSlash(p) ==
    IF Len(p) = 0 THEN 0
    ELSE IF Char(p, Len(p)) = "/" THEN Len(p)
    ELSE LastSlash(SubSeq(p, 1, Len(p) - 1))

\* os.path.dirname of a normalised absolute path
Dirname(p) ==
    LET i == LastSlash(p) IN IF i <= 1 THEN SubSeq(p, 1, i) ELSE SubSeq(p, 1, i - 1)

\* mutant: every path passes for a file
IsFileAlways(p) == TRUE

\* os.path.isfile of an absolute path
IsFile(p) == p \in exists

----------------------------------------------------------------------------
(* dict helpers *)

EmptyMap == [k \in {} |-> ""]

\* dict.update: the keys of b overwrite those of a
Update(a, b) == [k \in DOMAIN a \cup DOMAIN b |-> IF k \in DOMAIN b THEN b[k] ELSE a[k]]

\* d[k] = v
Put(d, k, v) == [x \in DOMAIN d \cup {k} |-> IF x = k THEN v ELSE d[x]]

----------------------------------------------------------------------------
(* _parse_profile_options, one frame per active call.  A file is read line by  *)
(* line: each read gives one raw line of the file, or its end.                 *)

\* current_section: <<>> is None, <<s>> is the string s
NoSection == <<>>

\* mutant: the early return without the test of the visited set
SkipsProfileNoCycleCheck(abs, vis) == ~IsFile(abs)

\* the early return of a call: the path was seen before, or is no file
SkipsProfile(abs, vis) == abs \in vis \/ ~IsFile(abs)

\* the frame of a call that passed the early return
NewFrame(abs) ==
    [path |-> abs, dir |-> Dirname(abs), section |-> NoSection, options |-> EmptyMap]

Frame == stack[Len(stack)]
Running == pstate = "running" /\ stack # <<>>

\* the lines of a file whose content is known, each with its line end: what the
\* loop `for raw_line in handle` gives
FileLines(content) ==
    LET parts == SplitOn(content, "\n") IN
    [i \in 1..(Len(parts) - 1) |-> parts[i] \o "\n"]
        \o (IF parts[Len(parts)] = "" THEN <<>> ELSE <<parts[Len(parts)]>>)

\* the raw lines the next read of the current file may give: the next line of a
\* file that was written before the call, any line of its pool for another file
NextLines ==
    IF ~Running THEN {}
    ELSE IF Frame.path \in DOMAIN contents
    THEN LET lines == FileLines(contents[Frame.path]) IN
         IF Len(text[Frame.path]) < Len(lines)
         THEN {lines[Len(text[Frame.path]) + 1]} ELSE {}
    ELSE IF Len(text[Frame.path]) < limit[Frame.path] THEN pool[Frame.path] ELSE {}

\* the loop over the current file may end: after the last line of a file that was
\* written before the call, after any line of another file
AtEndOfFile ==
    Frame.path \in DOMAIN contents
        => Len(text[Frame.path]) = Len(FileLines(contents[Frame.path]))

IsBlankOrComment(line) == line = "" \/ StartsWith(line, "#")
IsInclude(line) == StartsWith(Lower(line), "include(") /\ EndsWith(line, ")")
IsSection(line) == StartsWith(line, "[") /\ EndsWith(line, "]")

IncludeTarget(line) == Strip(SubSeq(line, Len("include(") + 1, Len(line) - 1))
IncludePath(dir, target) == IF IsAbs(target) THEN target ELSE PathJoin(dir, target)

\* mutant: the section name is kept as written
SectionNameAsWritten(line) == Strip(SubSeq(line, 2, Len(line) - 1))

\* line[1:-1].strip().lower()
SectionName(line) == Lower(Strip(SubSeq(line, 2, Len(line) - 1)))

\* the key of a key=value line, stripped, without a leading root scope marker
OptionKey(line) ==
    LET key == Strip(SplitFirst(line, "=")[1]) IN
    IF StartsWith(key, "&:") THEN SubSeq(key, 3, Len(key)) ELSE key

\* mutant: the value ends at the next '='
OptionValueToNextEquals(line) == Strip(SplitOn(line, "=")[2])

\* the value of a key=value line: all that follows the first '=', stripped
OptionValue(line) == Strip(SplitFirst(line, "=")[2])

\* mutant: only the package separator marks a scoped key
IsScopedSlashOnly(key) == Contains(key, "/")

\* a key that names another package or a version range is not a root option
IsScoped(key) == Contains(key, "/") \/ Contains(key, ":")

\* mutant: the including file's earlier values survive the include
MergeIncludeKeepOwn(options, included) == Update(included, options)

\* the included file's options merged into those of the including file
MergeInclude(options, included) == Update(options, included)

SetFrame(f) == [stack EXCEPT ![Len(stack)] = f]

\* the raw line is read from the current file
Read(raw) == text' = [text EXCEPT ![Frame.path] = Append(@, raw)]

\* the top-level call _parse_profile_options(top)
ParseCall ==
    /\ pstate = "idle"
    /\ LET abs == Abspath(top) IN
       IF SkipsProfile(abs, visited)
       THEN /\ result' = EmptyMap
            /\ pstate' = "done"
            /\ UNCHANGED <<stack, visited, opened>>
       ELSE /\ visited' = visited \cup {abs}
            /\ stack' = <<NewFrame(abs)>>
            /\ opened' = [opened EXCEPT ![abs] = @ + 1]
            /\ pstate' = "running"
            /\ UNCHANGED result
    /\ steps' = steps + 1
    /\ UNCHANGED <<exists, pool, limit, text, top>>
    /\ UNCHANGED notParseVars

\* a blank line or a comment
SkipLine ==
    \E raw \in NextLines :
        LET line == Strip(raw) IN
        /\ IsBlankOrComment(line)
        /\ Read(raw)
        /\ steps' = steps + 1
        /\ UNCHANGED <<exists, pool, limit, top, stack, visited, result, pstate, opened>>
        /\ UNCHANGED notParseVars

\* mutant: the included file is not added to the visited set
IncludeLineUnmarked ==
    \E raw \in NextLines :
        LET line == Strip(raw)
            abs == Abspath(IncludePath(Frame.dir, IncludeTarget(line)))
        IN
        /\ ~IsBlankOrComment(line)
        /\ IsInclude(line)
        /\ Read(raw)
        /\ IF SkipsProfile(abs, visited)
           THEN /\ stack' = SetFrame([Frame EXCEPT !.options = MergeInclude(@, EmptyMap)])
                /\ UNCHANGED opened
           ELSE /\ stack' = Append(stack, NewFrame(abs))
                /\ opened' = [opened EXCEPT ![abs] = @ + 1]
        /\ steps' = steps + 1
        /\ UNCHANGED <<exists, pool, limit, top, visited, result, pstate>>
        /\ UNCHANGED notParseVars

\* an include(X) directive: the recursive call either returns {} at once or
\* becomes the innermost frame
IncludeLine ==
    \E raw \in NextLines :
        LET line == Strip(raw)
            abs == Abspath(IncludePath(Frame.dir, IncludeTarget(line)))
        IN
        /\ ~IsBlankOrComment(line)
        /\ IsInclude(line)
        /\ Read(raw)
        /\ IF SkipsProfile(abs, visited)
           THEN /\ stack' = SetFrame([Frame EXCEPT !.options = MergeInclude(@, EmptyMap)])
                /\ UNCHANGED <<visited, opened>>
           ELSE /\ visited' = visited \cup {abs}
                /\ stack' = Append(stack, NewFrame(abs))
                /\ opened' = [opened EXCEPT ![abs] = @ + 1]
        /\ steps' = steps + 1
        /\ UNCHANGED <<exists, pool, limit, top, result, pstate>>
        /\ UNCHANGED notParseVars

\* a [section] header
SectionLine ==
    \E raw \in NextLines :
        LET line == Strip(raw) IN
        /\ ~IsBlankOrComment(line)
        /\ ~IsInclude(line)
        /\ IsSection(line)
        /\ Read(raw)
        /\ stack' = SetFrame([Frame EXCEPT !.section = <<SectionName(line)>>])
        /\ steps' = steps + 1
        /\ UNCHANGED <<exists, pool, limit, top, visited, result, pstate, opened>>
        /\ UNCHANGED notParseVars

\* a line outside [options], or one without '='
IgnoreLine ==
    \E raw \in NextLines :
        LET line == Strip(raw) IN
        /\ ~IsBlankOrComment(line)
        /\ ~IsInclude(line)
        /\ ~IsSection(line)
        /\ Frame.section # <<"options">> \/ ~Contains(line, "=")
        /\ Read(raw)
        /\ steps' = steps + 1
        /\ UNCHANGED <<exists, pool, limit, top, stack, visited, result, pstate, opened>>
        /\ UNCHANGED notParseVars

\* a key=value line of [options]
AssignLine ==
    \E raw \in NextLines :
        LET line == Strip(raw) IN
        /\ ~IsBlankOrComment(line)
        /\ ~IsInclude(line)
        /\ ~IsSection(line)
        /\ Frame.section = <<"options">>
        /\ Contains(line, "=")
        /\ Read(raw)
        /\ stack' = SetFrame(
               IF IsScoped(OptionKey(line))
               THEN Frame
               ELSE [Frame EXCEPT !.options = Put(@, OptionKey(line), OptionValue(line))])
        /\ steps' = steps + 1
        /\ UNCHANGED <<exists, pool, limit, top, visited, result, pstate, opened>>
        /\ UNCHANGED notParseVars

\* the end of the file: return options, to the caller's update or to the user
ReturnOptions ==
    /\ Running
    /\ AtEndOfFile
    /\ IF Len(stack) = 1
       THEN /\ result' = Frame.options
            /\ pstate' = "done"
            /\ stack' = <<>>
       ELSE LET caller == stack[Len(stack) - 1] IN
            /\ stack' = Append(SubSeq(stack, 1, Len(stack) - 2),
                               [caller EXCEPT !.options = MergeInclude(@, Frame.options)])
            /\ UNCHANGED <<result, pstate>>
    /\ steps' = steps + 1
    /\ UNCHANGED <<exists, pool, limit, text, top, visited, opened>>
    /\ UNCHANGED notParseVars

NextParse ==
    \/ ParseCall
    \/ SkipLine
    \/ IncludeLine
    \/ SectionLine
    \/ IgnoreLine
    \/ AssignLine
    \/ ReturnOptions

----------------
(* _parse_bool_option *)

\* the values that count as true, and the alias added on request
TrueValues == {"true", "1", "yes", "on"}
TrueAliases == {"builtin"}

\* mutant: the value is compared as written, without lower()
NormalizedAsWritten(value) == Strip(value)

\* str(value).strip().lower() of a string value
Normalized(value) == Lower(Strip(value))

\* _parse_bool_option(value, allow_string_aliases): value is <<>> for None
ParseBoolOption(value, allow_string_aliases) ==
    IF value = <<>>
    THEN "False"
    ELSE LET true_values ==
                 IF allow_string_aliases THEN TrueValues \cup TrueAliases ELSE TrueValues
         IN  IF Normalized(value[1]) \in true_values THEN "True" ELSE "False"

\* one call of _parse_bool_option
ParseBool ==
    /\ breturn = <<>>
    /\ breturn' = <<ParseBoolOption(bvalue, ballow)>>
    /\ UNCHANGED <<bvalue, ballow>>
    /\ UNCHANGED <<parseVars, genVars, driverVars, renderVars, packVars, argv>>

NextBool == ParseBool

----------------
(* build_library: get_args, conan_install *)

GENERATORS ==
    [g \in {"make", "ninja", "vs2019", "vs2022", "xcode"} |->
        CASE g = "make"   -> <<>>
          [] g = "ninja"  -> <<"Ninja">>
          [] g = "vs2019" -> <<"Visual Studio 16 2019">>
          [] g = "vs2022" -> <<"Visual Studio 17 2022">>
          [] g = "xcode"  -> <<"Xcode">>]

\* the characters of file names in their code point order
CodePoints == "-.0123456789ABCDEFGHIJKLMNOPQRSTUVWXYZ_abcdefghijklmnopqrstuvwxyz"

RECURSIVE StrLess(_, _)
\* a < b for two strings
StrLess(a, b) ==
    IF Len(b) = 0 THEN FALSE
    ELSE IF Len(a) = 0 THEN TRUE
    ELSE IF Char(a, 1) = Char(b, 1) THEN StrLess(Tail(a), Tail(b))
    ELSE Find(CodePoints, Char(a, 1)) < Find(CodePoints, Char(b, 1))

RECURSIVE Sorted(_)
\* sorted(S) of a set of strings
Sorted(S) ==
    IF S = {} THEN <<>>
    ELSE LET least == CHOOSE x \in S : \A y \in S \ {x} : StrLess(x, y)
         IN  <<least>> \o Sorted(S \ {least})

RECURSIVE Join(_, _)
\* sep.join(seq)
Join(seq, sep) ==
    IF seq = <<>> THEN ""
    ELSE IF Len(seq) = 1 THEN seq[1]
    ELSE seq[1] \o sep \o Join(Tail(seq), sep)

\* os.path.dirname(os.path.abspath(__file__)) of build_library.py
ScriptDir == "/s/build_tools"
ProfilesDir == PathJoin(ScriptDir, "profiles")

\* a raised exception
Raised(type, msg) == <<[type |-> type, msg |-> msg]>>
NoError == <<>>

\* precompile_profiles: the bundled file names, each with its absolute path
PrecompileProfiles == [f \in bundled |-> Abspath(PathJoin(ProfilesDir, f))]

\* bool(s) of an optional string: None and '' are false
Truthy(s) == s # <<>> /\ s[1] # ""

\* is_file(_file_name): the absolute path, or the TypeError
is_file(file_name) ==
    IF ~IsFile(Abspath(file_name))
    THEN [err |-> Raised("TypeError", file_name \o " is not a file"), value |-> ""]
    ELSE [err |-> NoError, value |-> Abspath(file_name)]

\* mutant: a local file is preferred to a bundled profile of the same name
IsBundledUnlessLocal(profile) ==
    profile # <<>> /\ profile[1] \in bundled /\ ~IsFile(Abspath(profile[1]))

\* parsed_args.profile in precompile_profiles.keys()
IsBundled(profile) == profile # <<>> /\ profile[1] \in bundled

\* the profile lookup of get_args: the new value of parsed_args.profile, or the
\* TypeError
ResolveProfile(profile) ==
    LET first ==
            IF ~Truthy(profile) \/ ~IsBundled(profile)
            THEN IF Truthy(profile) /\ IsFile(Abspath(profile[1]))
                 THEN is_file(profile[1])
                 ELSE [err |-> Raised("TypeError",
                                  "A valid --profile is required. Available profiles: ["
                                      \o Join(Sorted(bundled), ", ") \o "]"),
                       value |-> ""]
            ELSE [err |-> NoError, value |-> profile[1]]
    IN  IF first.err # NoError THEN first
        ELSE IF ~IsBundled(<<first.value>>) THEN is_file(first.value)
        ELSE [err |-> NoError, value |-> PrecompileProfiles[first.value]]

\* the generator test of get_args
CheckGenerator(generator) ==
    IF generator \notin DOMAIN GENERATORS
    THEN Raised("TypeError",
             "specified generator not supported \"" \o generator \o "\". Must be one of ["
                 \o Join(<<"make", "ninja", "vs2019", "vs2022", "xcode">>, ", ") \o "]")
    ELSE NoError

\* an exception leaves the function that was called
Raise(e) ==
    /\ derr' = e
    /\ dpc' = "raised"

\* get_args(), after argparse has parsed the command line
GetArgs ==
    /\ dpc = "get_args"
    /\ LET resolved == ResolveProfile(args.profile) IN
       IF resolved.err # NoError
       THEN Raise(resolved.err) /\ UNCHANGED args
       ELSE IF CheckGenerator(args.generator) # NoError
       THEN /\ Raise(CheckGenerator(args.generator))
            /\ args' = [args EXCEPT !.profile = <<resolved.value>>]
       ELSE /\ args' = [args EXCEPT !.profile = <<resolved.value>>]
            /\ dpc' = IF dentry = "main" THEN "conan_install" ELSE "returned"
            /\ UNCHANGED derr
    /\ UNCHANGED <<bundled, which, dirs, dentry, conan_cmd, my_cmake_options, cmake_cmd,
                   calls, stderr, dexit>>
    /\ UNCHANGED <<parseVars, genVars, boolVars, renderVars, packVars, argv>>

\* sys.prefix of the running interpreter
SysPrefix == "/venv"

\* _resolve_tool(tool_name): <<path>>, or <<>> when it raises RuntimeError
ResolveTool(tool_name) ==
    IF which[tool_name] # <<>> /\ which[tool_name][1] # ""
    THEN which[tool_name]
    ELSE LET venv_scripts == PathJoin(PathJoin(SysPrefix, "bin"), tool_name) IN
         IF IsFile(venv_scripts) THEN <<venv_scripts>> ELSE <<>>

ToolNotFound(tool_name) ==
    Raised("RuntimeError",
           "Tool '" \o tool_name \o "' not found. "
               \o "Please ensure it's installed and available on PATH or in your Python environment.\n"
               \o "Install via: pip install " \o tool_name
               \o " (if available) or download from official site.")

\* os.path.isdir
IsDir(p) == Abspath(p) \in dirs

RECURSIVE Ancestors(_)
\* an absolute path and the directories above it
Ancestors(p) == IF p = "/" \/ p = "" THEN {"/"} ELSE {p} \cup Ancestors(Dirname(p))

\* os.makedirs(p)
MakeDirs(p) == dirs \cup Ancestors(Abspath(p))

\* mutant: conan_install runs the command it has built
ConanInstallRuns ==
    /\ dpc = "conan_install"
    /\ dirs' = IF ~args.dry_run /\ ~IsDir(args.build_dir) THEN MakeDirs(args.build_dir)
               ELSE dirs
    /\ LET conan_exe == ResolveTool("conan") IN
       IF conan_exe = <<>>
       THEN Raise(ToolNotFound("conan")) /\ UNCHANGED <<conan_cmd, calls>>
       ELSE /\ conan_cmd' = <<conan_exe[1], "install", "-of", args.build_dir,
                              "-pr", args.profile[1], args.cmake_dir, "--build=missing">>
            /\ calls' = IF args.dry_run THEN calls
                        ELSE Append(calls, [cmd |-> conan_cmd', returncode |-> 0])
            /\ dpc' = "get_cmake_options"
            /\ UNCHANGED derr
    /\ UNCHANGED <<args, bundled, which, dentry, my_cmake_options, cmake_cmd,
                   stderr, dexit>>
    /\ UNCHANGED <<parseVars, genVars, boolVars, renderVars, packVars, argv>>

\* conan_install(args.profile, args.cmake_dir, args.build_dir, args.dry_run)
ConanInstall ==
    /\ dpc = "conan_install"
    /\ dirs' = IF ~args.dry_run /\ ~IsDir(args.build_dir) THEN MakeDirs(args.build_dir)
               ELSE dirs
    /\ LET conan_exe == ResolveTool("conan") IN
       IF conan_exe = <<>>
       THEN Raise(ToolNotFound("conan")) /\ UNCHANGED conan_cmd
       ELSE /\ conan_cmd' = <<conan_exe[1], "install", "-of", args.build_dir,
                              "-pr", args.profile[1], args.cmake_dir, "--build=missing">>
            /\ dpc' = "get_cmake_options"
            /\ UNCHANGED derr
    /\ UNCHANGED <<args, bundled, which, dentry, my_cmake_options, cmake_cmd, calls,
                   stderr, dexit>>
    /\ UNCHANGED <<parseVars, genVars, boolVars, renderVars, packVars, argv>>

----------------
(* build_library: get_cmake_options, run_cmake, main *)

\* d.get(k, default)
Get(d, k, default) == IF k \in DOMAIN d THEN d[k] ELSE default

\* get_cmake_options(args) calls _parse_profile_options(args.profile)
ParseProfileCall ==
    /\ dpc = "get_cmake_options"
    /\ pstate = "off"
    /\ top' = args.profile[1]
    /\ pstate' = "idle"
    /\ dpc' = "profile_options"
    /\ UNCHANGED <<exists, pool, limit, text, stack, visited, result, opened, steps>>
    /\ UNCHANGED <<args, bundled, which, dirs, dentry, conan_cmd, my_cmake_options,
                   cmake_cmd, calls, derr, stderr, dexit>>
    /\ UNCHANGED <<genVars, boolVars, renderVars, packVars, argv>>

\* conan_options of get_cmake_options, from the parsed profile options
ConanOptions(profile_options) ==
    [testing |-> ParseBoolOption(<<Get(profile_options, "testing", "False")>>, TRUE),
     pybind  |-> ParseBoolOption(<<Get(profile_options, "pybind", "False")>>, TRUE),
     wchar_t |-> ParseBoolOption(<<Get(profile_options, "wchar_t", "False")>>, FALSE)]

BuildType(profile) == IF EndsWith(Lower(profile), "_d") THEN "Debug" ELSE "Release"

\* the options every build gets
FixedOptions(conan_options) ==
    <<"-DBUILD_TESTING=" \o conan_options.testing,
      "-DIS_PYTHON_BUILD=" \o conan_options.pybind,
      "-DXMS_BUILD=" \o conan_options.wchar_t,
      "-DCMAKE_INSTALL_PREFIX=" \o PathJoin(args.build_dir, "install"),
      "-DCMAKE_BUILD_TYPE=" \o BuildType(args.profile[1])>>

PythonOption ==
    <<"-DPYTHON_TARGET_VERSION="
          \o (IF Truthy(args.python_version) THEN args.python_version[1] ELSE "3.13")>>

\* the test files of the build: args.test_files or the default
TestFiles == IF ~Truthy(args.test_files) THEN "./test_files" ELSE args.test_files[1]

TestFilesMissing(test_files) ==
    Raised("RuntimeError",
           "Test files path does not exist: " \o test_files \o "\n"
               \o "Either create the directory, specify a valid path with --test_files, "
               \o "or use --allow-missing-test-files to skip this check.")

\* the testing branch: the error it raises and the options it adds
TestingBranch ==
    LET test_files == TestFiles
        has_test_files == test_files \notin {"NONE", ""}
    IN  IF ~IsDir(test_files) /\ has_test_files
        THEN IF ~args.allow_missing_test_files
             THEN [err |-> TestFilesMissing(test_files), options |-> <<>>]
             ELSE [err |-> NoError, options |-> <<>>]
        ELSE IF has_test_files
        THEN [err |-> NoError, options |-> <<"-DXMS_TEST_PATH=" \o Abspath(test_files)>>]
        ELSE [err |-> NoError, options |-> <<>>]

\* the options that depend on the kind of build: python builds, else test builds
DerivedOptions(conan_options) ==
    IF conan_options.pybind # "False"
    THEN [err |-> NoError, options |-> PythonOption]
    ELSE IF conan_options.testing # "False"
    THEN TestingBranch
    ELSE [err |-> NoError, options |-> <<>>]

LibVersion == IF Truthy(args.xms_version) THEN args.xms_version[1] ELSE "99.99.99"

ToolchainOptions ==
    LET build_dir == IF args.build_dir # "" THEN args.build_dir ELSE "build" IN
    <<"-DCMAKE_TOOLCHAIN_FILE=" \o build_dir \o "/build/generators/conan_toolchain.cmake">>

\* get_cmake_options(args), once _parse_profile_options has returned
GetCmakeOptions ==
    /\ dpc = "profile_options"
    /\ pstate = "done"
    /\ LET conan_options == ConanOptions(result)
           derived == DerivedOptions(conan_options)
       IN  IF derived.err # NoError
           THEN Raise(derived.err) /\ UNCHANGED my_cmake_options
           ELSE /\ my_cmake_options' =
                       FixedOptions(conan_options) \o derived.options
                           \o <<"-DXMS_VERSION=" \o LibVersion>> \o ToolchainOptions
                /\ dpc' = IF dentry = "main" THEN "run_cmake" ELSE "returned"
                /\ UNCHANGED derr
    /\ UNCHANGED <<args, bundled, which, dirs, dentry, conan_cmd, cmake_cmd, calls,
                   stderr, dexit>>
    /\ UNCHANGED <<parseVars, genVars, boolVars, renderVars, packVars, argv>>

\* run_cmake(args.cmake_dir, args.build_dir, args.generator, my_cmake_options)
RunCmake ==
    /\ dpc = "run_cmake"
    /\ LET cmake_exe == ResolveTool("cmake")
           gen == GENERATORS[args.generator]
       IN  IF cmake_exe = <<>>
           THEN Raise(ToolNotFound("cmake")) /\ UNCHANGED cmake_cmd
           ELSE /\ cmake_cmd' =
                       cmake_exe \o (IF gen # <<>> THEN <<"-G", gen[1]>> ELSE <<>>)
                           \o my_cmake_options
                           \o <<"-S", args.cmake_dir, "-B", args.build_dir>>
                /\ dpc' = "execute"
                /\ UNCHANGED derr
    /\ UNCHANGED <<args, bundled, which, dirs, dentry, conan_cmd, my_cmake_options, calls,
                   stderr, dexit>>
    /\ UNCHANGED <<parseVars, genVars, boolVars, renderVars, packVars, argv>>

\* the exit codes of an external command
ExitCodes == {0, 1}

ExitCodeText(code) == Char("0123456789", code + 1)

\* repr of a list of strings
ListRepr(cmd) == "[" \o Join([i \in 1..Len(cmd) |-> "'" \o cmd[i] \o "'"], ", ") \o "]"

\* what subprocess.run(cmd, check=True) raises on a non-zero exit
CalledProcessError(cmd, code) ==
    Raised("CalledProcessError",
           "Command '" \o ListRepr(cmd) \o "' returned non-zero exit status "
               \o ExitCodeText(code) \o ".")

\* subprocess.run(cmd, check=True) where the command exits with `code`
SubprocessRun(cmd, code, after) ==
    /\ calls' = Append(calls, [cmd |-> cmd, returncode |-> code])
    /\ IF code # 0
       THEN Raise(CalledProcessError(cmd, code))
       ELSE dpc' = after /\ UNCHANGED derr

\* mutant: the dry run logs both commands and goes on to run the install
DryRunFallsThrough ==
    /\ dpc = "execute"
    /\ args.dry_run
    /\ \E code \in ExitCodes : SubprocessRun(conan_cmd, code, "conan_done")
    /\ UNCHANGED <<args, bundled, which, dirs, dentry, conan_cmd, my_cmake_options,
                   cmake_cmd, stderr, dexit>>
    /\ UNCHANGED <<parseVars, genVars, boolVars, renderVars, packVars, argv>>

\* main: the dry run logs both commands and returns
DryRunReturn ==
    /\ dpc = "execute"
    /\ args.dry_run
    /\ dpc' = "returned"
    /\ UNCHANGED <<args, bundled, which, dirs, dentry, conan_cmd, my_cmake_options,
                   cmake_cmd, calls, derr, stderr, dexit>>
    /\ UNCHANGED <<parseVars, genVars, boolVars, renderVars, packVars, argv>>

\* mutant: a failed install is not checked
RunConanUnchecked ==
    /\ dpc = "execute"
    /\ ~args.dry_run
    /\ \E code \in ExitCodes :
           /\ calls' = Append(calls, [cmd |-> conan_cmd, returncode |-> code])
           /\ dpc' = "conan_done"
    /\ UNCHANGED <<args, bundled, which, dirs, dentry, conan_cmd, my_cmake_options,
                   cmake_cmd, derr, stderr, dexit>>
    /\ UNCHANGED <<parseVars, genVars, boolVars, renderVars, packVars, argv>>

\* main: subprocess.run(conan_cmd, check=True)
RunConan ==
    /\ dpc = "execute"
    /\ ~args.dry_run
    /\ \E code \in ExitCodes : SubprocessRun(conan_cmd, code, "conan_done")
    /\ UNCHANGED <<args, bundled, which, dirs, dentry, conan_cmd, my_cmake_options,
                   cmake_cmd, stderr, dexit>>
    /\ UNCHANGED <<parseVars, genVars, boolVars, renderVars, packVars, argv>>

\* main: subprocess.run(cmake_cmd, check=True)
RunCmakeCommand ==
    /\ dpc = "conan_done"
    /\ \E code \in ExitCodes : SubprocessRun(cmake_cmd, code, "returned")
    /\ UNCHANGED <<args, bundled, which, dirs, dentry, conan_cmd, my_cmake_options,
                   cmake_cmd, stderr, dexit>>
    /\ UNCHANGED <<parseVars, genVars, boolVars, renderVars, packVars, argv>>

\* the script's __main__ block: an exception of main becomes a message on the
\* error stream and exit code 1
ScriptExit ==
    /\ dentry = "main"
    /\ dpc \in {"returned", "raised"}
    /\ dexit = <<>>
    /\ IF dpc = "raised"
       THEN /\ stderr' = Append(stderr, "Error: " \o derr[1].msg)
            /\ dexit' = <<1>>
       ELSE /\ dexit' = <<0>>
            /\ UNCHANGED stderr
    /\ UNCHANGED <<args, bundled, which, dirs, dentry, dpc, conan_cmd, my_cmake_options,
                   cmake_cmd, calls, derr>>
    /\ UNCHANGED <<parseVars, genVars, boolVars, renderVars, packVars, argv>>

\* get_cmake_options called by itself
NextCmake ==
    \/ ParseProfileCall
    \/ NextParse
    \/ GetCmakeOptions

NextDriver ==
    \/ GetArgs
    \/ ConanInstall
    \/ ParseProfileCall
    \/ NextParse
    \/ GetCmakeOptions
    \/ RunCmake
    \/ DryRunReturn
    \/ RunConan
    \/ RunCmakeCommand
    \/ ScriptExit

----------------
(* build_file_generator: render_template_with_toml *)

\* the parameters of render_template_with_toml
RenderParameters == {"toml_file_path", "version", "template_dir", "output_dir"}

\* Path.exists(), Path.is_dir() and a regular file, for a path relative to Cwd
PathExists(p) == Abspath(p) \in DOMAIN contents \/ Abspath(p) \in folders
PathIsDir(p) == Abspath(p) \in folders
PathIsFile(p) == Abspath(p) \in DOMAIN contents

\* Path.name and Path.stem
Basename(p) == SubSeq(p, LastSlash(p) + 1, Len(p))

RECURSIVE LastDot(_)
LastDot(name) ==
    IF Len(name) = 0 THEN 0
    ELSE IF Char(name, Len(name)) = "." THEN Len(name)
    ELSE LastDot(SubSeq(name, 1, Len(name) - 1))

\* mutant: the name without all of its suffixes
StemToFirstDot(p) ==
    LET name == Basename(p)
        i == FindFrom(name, ".", 1)
    IN  IF i <= 1 THEN name ELSE SubSeq(name, 1, i - 1)

\* Path.stem: the name without its last suffix
Stem(p) ==
    LET name == Basename(p)
        i == LastDot(name)
    IN  IF i <= 1 THEN name ELSE SubSeq(name, 1, i - 1)

RECURSIVE FindSub(_, _, _)
\* str.find(sub, i), 1-based; 0 when absent
FindSub(s, sub, i) ==
    IF i + Len(sub) - 1 > Len(s) THEN 0
    ELSE IF SubSeq(s, i, i + Len(sub) - 1) = sub THEN i
    ELSE FindSub(s, sub, i + 1)

RECURSIVE Replace(_, _, _)
\* str.replace(old, new)
Replace(s, old, new) ==
    LET i == FindSub(s, old, 1) IN
    IF i = 0 THEN s
    ELSE SubSeq(s, 1, i - 1) \o new \o Replace(SubSeq(s, i + Len(old), Len(s)), old, new)

\* the text of a basic string, without its quotes
Unquote(v) ==
    IF Len(v) >= 2 /\ Char(v, 1) = "\"" /\ Char(v, Len(v)) = "\""
    THEN SubSeq(v, 2, Len(v) - 1)
    ELSE v

RECURSIVE TomlLines(_, _)
\* the key = "value" lines of a TOML text, added to a mapping; a line that is
\* neither blank nor a pair makes the text invalid
TomlLines(lines, data) ==
    IF lines = <<>> THEN [err |-> NoError, data |-> data]
    ELSE LET line == Strip(Head(lines)) IN
         IF line = "" THEN TomlLines(Tail(lines), data)
         ELSE IF ~Contains(line, "=")
         THEN [err |-> Raised("TOMLDecodeError", "Invalid statement"), data |-> EmptyMap]
         ELSE TomlLines(Tail(lines),
                        Put(data, Strip(SplitFirst(line, "=")[1]),
                            Unquote(Strip(SplitFirst(line, "=")[2]))))

\* tomllib.loads / toml.loads for a text of key = "value" lines
TomlLoads(content) == TomlLines(SplitOn(content, "\n"), EmptyMap)

\* dict.setdefault(k, v)
SetDefault(d, k, v) == IF k \in DOMAIN d THEN d ELSE Put(d, k, v)

\* mutant: every file of the directory is taken for a template
GlobAll(template_dir) ==
    Sorted({f \in DOMAIN contents : Dirname(f) = Abspath(template_dir)})

\* template_dir.glob("*.jinja"), sorted
GlobJinja(template_dir) ==
    Sorted({f \in DOMAIN contents :
               Dirname(f) = Abspath(template_dir) /\ EndsWith(Basename(f), ".jinja")})

\* mutant: an undefined variable renders as nothing
UndefinedAsBlank(name) == [err |-> NoError, text |-> ""]

\* StrictUndefined: printing an undefined variable raises
Undefined(name) ==
    [err |-> Raised("UndefinedError", "'" \o name \o "' is undefined"), text |-> ""]

\* the value of a variable of a template
Lookup(name, data) ==
    IF name \in DOMAIN data THEN [err |-> NoError, text |-> data[name]]
    ELSE Undefined(name)

RECURSIVE Render(_, _)
\* env.from_string(source).render(data) for a source of text and {{ name }}
\* expressions; the trailing newline is kept
Render(source, data) ==
    LET open == FindSub(source, "{{", 1) IN
    IF open = 0 THEN [err |-> NoError, text |-> source]
    ELSE LET close == FindSub(source, "}}", open + 2) IN
         IF close = 0
         THEN [err |-> Raised("TemplateSyntaxError", "unexpected end of template"),
               text |-> ""]
         ELSE LET value == Lookup(Strip(SubSeq(source, open + 2, close - 1)), data)
                  rest == Render(SubSeq(source, close + 2, Len(source)), data)
              IN  IF value.err # NoError THEN value
                  ELSE IF rest.err # NoError THEN rest
                  ELSE [err |-> NoError,
                        text |-> SubSeq(source, 1, open - 1) \o value.text \o rest.text]

\* an exception leaves render_template_with_toml
RenderRaise(e) ==
    /\ rerr' = e
    /\ rpc' = "raised"

\* the call up to the loop: the arguments are bound, the paths tested, the data
\* loaded, the output directory made, the templates listed
RenderCall ==
    /\ rpc = "call"
    /\ IF rargs.keywords \ RenderParameters # {}
       THEN /\ RenderRaise(Raised("TypeError",
                   "render_template_with_toml() got an unexpected keyword argument '"
                       \o (CHOOSE k \in rargs.keywords \ RenderParameters : TRUE) \o "'"))
            /\ UNCHANGED <<toml_data, folders, template_files>>
       ELSE IF ~PathExists(rargs.toml_file_path)
       THEN /\ RenderRaise(Raised("FileNotFoundError",
                   "The specified TOML file does not exist: " \o rargs.toml_file_path))
            /\ UNCHANGED <<toml_data, folders, template_files>>
       ELSE IF ~PathExists(rargs.template_dir) \/ ~PathIsDir(rargs.template_dir)
       THEN /\ RenderRaise(Raised("FileNotFoundError",
                   "The specified template directory does not exist: "
                       \o rargs.template_dir))
            /\ UNCHANGED <<toml_data, folders, template_files>>
       ELSE IF ~PathIsFile(rargs.toml_file_path)
       THEN /\ RenderRaise(Raised("IsADirectoryError", rargs.toml_file_path))
            /\ UNCHANGED <<toml_data, folders, template_files>>
       ELSE LET loaded == TomlLoads(contents[Abspath(rargs.toml_file_path)]) IN
            IF loaded.err # NoError
            THEN /\ RenderRaise(loaded.err)
                 /\ UNCHANGED <<toml_data, folders, template_files>>
            ELSE /\ toml_data' = SetDefault(Put(loaded.data, "version", rargs.version),
                                            "testing_framework", "cxxtest")
                 /\ folders' = folders \cup Ancestors(Abspath(rargs.output_dir))
                 /\ IF GlobJinja(rargs.template_dir) = <<>>
                    THEN /\ RenderRaise(Raised("FileNotFoundError",
                                "No template files (with .jinja extension) were found in the directory: "
                                    \o rargs.template_dir))
                         /\ UNCHANGED template_files
                    ELSE /\ template_files' = GlobJinja(rargs.template_dir)
                         /\ rpc' = "render"
                         /\ UNCHANGED rerr
    /\ UNCHANGED <<rargs, contents, ri, written>>
    /\ UNCHANGED <<parseVars, genVars, boolVars, driverVars, packVars, argv>>

\* _write_text_lf(path, content)
WriteTextLf(path, content) ==
    LET text_lf == Replace(content, "\r\n", "\n") IN
    /\ contents' = Put(contents, path, text_lf)
    /\ written' = Append(written, [path |-> path, content |-> text_lf])

\* mutant: a failed rendering removes the outputs written before it
RenderTemplateRollsBack ==
    /\ rpc = "render"
    /\ ri <= Len(template_files)
    /\ LET template_file == template_files[ri]
           rendered == Render(contents[template_file], toml_data)
           output_file == PathJoin(Abspath(rargs.output_dir), Stem(template_file))
       IN  IF rendered.err # NoError
           THEN /\ RenderRaise(rendered.err)
                /\ contents' = [f \in DOMAIN contents
                                      \ {written[i].path : i \in 1..Len(written)}
                                |-> contents[f]]
                /\ UNCHANGED <<written, ri>>
           ELSE /\ WriteTextLf(output_file, rendered.text)
                /\ ri' = ri + 1
                /\ UNCHANGED <<rpc, rerr>>
    /\ UNCHANGED <<rargs, folders, toml_data, template_files>>
    /\ UNCHANGED <<parseVars, genVars, boolVars, driverVars, packVars, argv>>

\* one iteration of the loop: a template is read, rendered and written
RenderTemplate ==
    /\ rpc = "render"
    /\ ri <= Len(template_files)
    /\ LET template_file == template_files[ri]
           rendered == Render(contents[template_file], toml_data)
           output_file == PathJoin(Abspath(rargs.output_dir), Stem(template_file))
       IN  IF rendered.err # NoError
           THEN /\ RenderRaise(rendered.err)
                /\ UNCHANGED <<contents, written, ri>>
           ELSE /\ WriteTextLf(output_file, rendered.text)
                /\ ri' = ri + 1
                /\ UNCHANGED <<rpc, rerr>>
    /\ UNCHANGED <<rargs, folders, toml_data, template_files>>
    /\ UNCHANGED <<parseVars, genVars, boolVars, driverVars, packVars, argv>>

\* the loop is over: the call prints its message and returns
RenderReturn ==
    /\ rpc = "render"
    /\ ri > Len(template_files)
    /\ rpc' = "returned"
    /\ UNCHANGED <<rargs, contents, folders, toml_data, template_files, ri, written, rerr>>
    /\ UNCHANGED <<parseVars, genVars, boolVars, driverVars, packVars, argv>>

NextRender ==
    \/ RenderCall
    \/ RenderTemplate
    \/ RenderReturn

----------------
(* generate_configurations: the axis tables *)

\* package_tools.packager.configurations, axis order kept
PackagerConfigurations ==
    [windows |-> << <<"os", <<"Windows">> >>,
                    <<"build_type", <<"Release", "Debug">> >>,
                    <<"arch", <<"x86_64">> >>,
                    <<"compiler", <<"msvc">> >>,
                    <<"compiler.cppstd", <<"17">> >>,
                    <<"compiler.version", <<"192">> >>,
                    <<"compiler.runtime", <<"dynamic", "static">> >> >>,
     linux   |-> << <<"os", <<"Linux">> >>,
                    <<"cppstd", <<"17">> >>,
                    <<"build_type", <<"Release", "Debug">> >>,
                    <<"arch", <<"x86_64">> >>,
                    <<"compiler", <<"gcc">> >>,
                    <<"compiler.version", <<"12">> >> >>,
     darwin  |-> << <<"os", <<"Macos">> >>,
                    <<"build_type", <<"Release", "Debug">> >>,
                    <<"arch", <<"armv8">> >>,
                    <<"compiler", <<"apple-clang">> >>,
                    <<"compiler.version", <<"16">> >>,
                    <<"compiler.cppstd", <<"gnu17">> >>,
                    <<"compiler.libcxx", <<"libc++">> >> >>]

\* conan2_helpers.configurations, axis order kept
HelpersConfigurations ==
    [windows |-> << <<"cppstd", <<"17">> >>,
                    <<"build_type", <<"Release", "Debug">> >>,
                    <<"arch", <<"x86_64">> >>,
                    <<"compiler", <<"Visual Studio">> >>,
                    <<"compiler.version", <<"16">> >>,
                    <<"compiler.runtime", <<"MD", "MT">> >> >>,
     linux   |-> << <<"cppstd", <<"17">> >>,
                    <<"build_type", <<"Release", "Debug">> >>,
                    <<"arch", <<"x86_64">> >>,
                    <<"compiler", <<"gcc">> >>,
                    <<"compiler.version", <<"7">> >> >>,
     macos   |-> << <<"cppstd", <<"gnu17">> >>,
                    <<"build_type", <<"Release", "Debug">> >>,
                    <<"arch", <<"x86_64">> >>,
                    <<"compiler", <<"apple-clang">> >>,
                    <<"compiler.version", <<"14">> >> >>]

Configurations(im) ==
    IF im = "packager" THEN PackagerConfigurations ELSE HelpersConfigurations

\* configurations.get(platform): <<>> is None
GetConfiguration(im, platform) ==
    IF platform \in DOMAIN Configurations(im) THEN <<Configurations(im)[platform]>> ELSE <<>>

\* the platform looked up: the argument, or its default when it is not given
ResolvePlatform(im, a, h) ==
    IF a # <<>> THEN a[1] ELSE IF im = "packager" THEN h ELSE "windows"

RECURSIVE WithAxis(_, _, _)
\* for each value of vals, in order, every entry of rest extended by axis = value
WithAxis(axis, vals, rest) ==
    IF vals = <<>> THEN <<>>
    ELSE [i \in 1..Len(rest) |-> Put(rest[i], axis, Head(vals))]
         \o WithAxis(axis, Tail(vals), rest)

RECURSIVE Product(_)
\* [dict(zip(keys, c)) for c in itertools.product(*values)]: the last axis varies fastest
Product(axes) ==
    IF axes = <<>> THEN <<EmptyMap>>
    ELSE WithAxis(Head(axes)[1], Head(axes)[2], Product(Tail(axes)))

Digits == "0123456789"

DigitValue(c) == (CHOOSE i \in 1..Len(Digits) : Char(Digits, i) = c) - 1

RECURSIVE ParseInt(_)
\* int(s) of a decimal string
ParseInt(s) ==
    IF Len(s) = 0 THEN 0
    ELSE ParseInt(SubSeq(s, 1, Len(s) - 1)) * 10 + DigitValue(Char(s, Len(s)))

\* os.getenv(name, default)
Getenv(name, default) == IF env[name] = <<>> THEN default ELSE env[name]

ReadEnvironment ==
    LET ci == Getenv("CI_COMMIT_TAG", <<"False">>) IN
    [xms_version           |-> Getenv("XMS_VERSION", <<>>),
     python_target_version |-> Getenv("PYTHON_TARGET_VERSION", <<"3.12">>),
     ci_commit_tag         |-> ci,
     release_python        |-> IF ci # <<"False">> THEN <<"True">>
                               ELSE Getenv("RELEASE_PYTHON", <<"False">>),
     aquapi_username       |-> Getenv("AQUAPI_USERNAME", <<>>),
     aquapi_password       |-> Getenv("AQUAPI_PASSWORD", <<>>),
     aquapi_url            |-> Getenv("AQUAPI_URL", <<>>)]

DefaultOptions == [wchar_t |-> "builtin", pybind |-> FALSE, testing |-> FALSE]

BuildEnv(l) ==
    [XMS_VERSION           |-> l.xms_version,
     PYTHON_TARGET_VERSION |-> l.python_target_version,
     CI_COMMIT_TAG         |-> l.ci_commit_tag,
     RELEASE_PYTHON        |-> l.release_python,
     AQUAPI_USERNAME       |-> l.aquapi_username,
     AQUAPI_PASSWORD       |-> l.aquapi_password,
     AQUAPI_URL            |-> l.aquapi_url]

\* a reference that names no dict: the key is not set yet
NoRef == 0

\* mutant: copy.copy(c), a copy that shares the nested dicts of c
ShallowCopy(h, c) == <<h, c>>

\* copy.deepcopy(c): the copy owns new option and buildenv dicts; <<heap, copy>>
DeepCopy(h, c) ==
    <<h \o <<h[c.options], h[c.buildenv]>>,
      [settings |-> c.settings, options |-> Len(h) + 1, buildenv |-> Len(h) + 2]>>

\* mutant: the compiler name of the other table
WcharCompilerStale(im) == "Visual Studio"

\* the compiler that gets the wide-char overlay
WcharCompiler(im) == IF im = "packager" THEN "msvc" ELSE "Visual Studio"

WcharCondition(im, c) == c.settings["compiler"] = WcharCompiler(im)

\* the first test of the binding overlay; `or` does not look at the runtime of
\* a compiler other than Visual Studio
PybindCondition(c) ==
    /\ c.settings["build_type"] # "Debug"
    /\ \/ c.settings["compiler"] # "Visual Studio"
       \/ c.settings["compiler.runtime"] \in {"MD", "MDd"}

\* the `continue` of the binding overlay
PybindSkipped(c) ==
    /\ c.settings["compiler"] = "Visual Studio"
    /\ ParseInt(c.settings["compiler.version"]) <= 12

\* the option changed by each overlay
WcharUpdate(o) == [o EXCEPT !.wchar_t = "typedef"]
\* mutant: the binding overlay turns testing on as well
PybindUpdateWithTesting(o) == [o EXCEPT !.pybind = TRUE, !.testing = TRUE]
PybindUpdate(o) == [o EXCEPT !.pybind = TRUE]
\* mutant: the testing overlay sets the option of the binding overlay
TestingUpdateWrongKey(o) == [o EXCEPT !.pybind = TRUE]
TestingUpdate(o) == [o EXCEPT !.testing = TRUE]

\* mutant: the testing overlay is placed before the other overlays
ConcatTestingFirst(base, wchar, pybind, testing) == base \o testing \o wchar \o pybind

\* a + b + c + d
Concat(base, wchar, pybind, testing) == base \o wchar \o pybind \o testing

----------------------------------------------------------------------------
(* generate_configurations: the steps *)

\* the loop position after iteration gi of a loop over combinations
NextIteration(after) ==
    IF gi < Len(combinations)
    THEN gi' = gi + 1 /\ gpc' = gpc
    ELSE gi' = 1 /\ gpc' = after

\* the table lookup, the cartesian product and the environment reads
GenStart ==
    /\ gpc = "start"
    /\ LET table == GetConfiguration(impl, ResolvePlatform(impl, arg, host)) IN
       IF table = <<>>
       THEN \* None.keys()
            /\ gerr' = "AttributeError"
            /\ gpc' = "raised"
            /\ UNCHANGED <<combinations, locals>>
       ELSE LET product == Product(table[1]) IN
            /\ combinations' = [i \in 1..Len(product) |->
                                   [settings |-> product[i], options |-> NoRef,
                                    buildenv |-> NoRef]]
            /\ locals' = ReadEnvironment
            /\ gpc' = "defaults"
            /\ UNCHANGED gerr
    /\ UNCHANGED <<impl, arg, host, env, gi, heap, wchar_t_updated_builds,
                   pybind_updated_builds, testing_updated_builds, gresult>>
    /\ UNCHANGED notGenVars

\* one iteration of the loop that gives every combination its options and buildenv
GenDefaults ==
    /\ gpc = "defaults"
    /\ heap' = heap \o <<DefaultOptions, BuildEnv(locals)>>
    /\ combinations' = [combinations EXCEPT ![gi] =
                           [@ EXCEPT !.options = Len(heap) + 1, !.buildenv = Len(heap) + 2]]
    /\ NextIteration("wchar")
    /\ UNCHANGED <<impl, arg, host, env, locals, wchar_t_updated_builds,
                   pybind_updated_builds, testing_updated_builds, gresult, gerr>>
    /\ UNCHANGED notGenVars

\* one iteration of the wide-char loop
GenWchar ==
    /\ gpc = "wchar"
    /\ IF WcharCondition(impl, combinations[gi])
       THEN LET cp == DeepCopy(heap, combinations[gi]) IN
            /\ heap' = [cp[1] EXCEPT ![cp[2].options] = WcharUpdate(@)]
            /\ wchar_t_updated_builds' = Append(wchar_t_updated_builds, cp[2])
       ELSE UNCHANGED <<heap, wchar_t_updated_builds>>
    /\ NextIteration("pybind")
    /\ UNCHANGED <<impl, arg, host, env, locals, combinations,
                   pybind_updated_builds, testing_updated_builds, gresult, gerr>>
    /\ UNCHANGED notGenVars

\* one iteration of the binding loop
GenPybind ==
    /\ gpc = "pybind"
    /\ IF PybindCondition(combinations[gi]) /\ ~PybindSkipped(combinations[gi])
       THEN LET cp == DeepCopy(heap, combinations[gi]) IN
            /\ heap' = [cp[1] EXCEPT ![cp[2].options] = PybindUpdate(@)]
            /\ pybind_updated_builds' = Append(pybind_updated_builds, cp[2])
       ELSE UNCHANGED <<heap, pybind_updated_builds>>
    /\ NextIteration("testing")
    /\ UNCHANGED <<impl, arg, host, env, locals, combinations,
                   wchar_t_updated_builds, testing_updated_builds, gresult, gerr>>
    /\ UNCHANGED notGenVars

\* one iteration of the testing loop
GenTesting ==
    /\ gpc = "testing"
    /\ LET cp == DeepCopy(heap, combinations[gi]) IN
       /\ heap' = [cp[1] EXCEPT ![cp[2].options] = TestingUpdate(@)]
       /\ testing_updated_builds' = Append(testing_updated_builds, cp[2])
    /\ NextIteration("concat")
    /\ UNCHANGED <<impl, arg, host, env, locals, combinations,
                   wchar_t_updated_builds, pybind_updated_builds, gresult, gerr>>
    /\ UNCHANGED notGenVars

\* the concatenation and the return
GenReturn ==
    /\ gpc = "concat"
    /\ gresult' = Concat(combinations, wchar_t_updated_builds, pybind_updated_builds,
                         testing_updated_builds)
    /\ gpc' = "done"
    /\ UNCHANGED <<impl, arg, host, env, gi, locals, combinations, heap,
                   wchar_t_updated_builds, pybind_updated_builds,
                   testing_updated_builds, gerr>>
    /\ UNCHANGED notGenVars

NextGen ==
    \/ GenStart
    \/ GenDefaults
    \/ GenWchar
    \/ GenPybind
    \/ GenTesting
    \/ GenReturn

----------------------------------------------------------------------------
(* the command lines of both scripts: argparse, and the main of the generator *)

\* the arguments of the parser of get_args, in order: the option strings, the dest, what is
\* in the order given, the dest, what is stored ("?" is nargs='?', "1" one value,
\* "true" store_true, "count", "help")
\* and the default
DriverArguments ==
    <<[strings |-> <<"-h", "--help">>, dest |-> "help", nargs |-> "help", default |-> <<>>],
     [strings |-> <<"--cmake_dir", "-c">>, dest |-> "cmake_dir", nargs |-> "?",
      default |-> <<".">>],
     [strings |-> <<"--build_dir", "-b">>, dest |-> "build_dir", nargs |-> "?",
      default |-> <<PathJoin(".", "builds")>>],
     [strings |-> <<"--profile", "-p">>, dest |-> "profile", nargs |-> "?", default |-> <<>>],
     [strings |-> <<"--generator", "-g">>, dest |-> "generator", nargs |-> "?",
      default |-> <<"ninja">>],
     [strings |-> <<"--python_version">>, dest |-> "python_version", nargs |-> "?",
      default |-> <<>>],
     [strings |-> <<"--xms_version", "-x">>, dest |-> "xms_version", nargs |-> "?",
      default |-> <<>>],
     [strings |-> <<"--test_files", "-t">>, dest |-> "test_files", nargs |-> "?",
      default |-> <<>>],
     [strings |-> <<"--allow-missing-test-files">>, dest |-> "allow_missing_test_files",
      nargs |-> "true", default |-> FALSE],
     [strings |-> <<"--dry-run">>, dest |-> "dry_run", nargs |-> "true", default |-> FALSE],
     [strings |-> <<"-v", "--verbose">>, dest |-> "verbose", nargs |-> "count", default |-> 0],
     [strings |-> <<"-q", "--quiet">>, dest |-> "quiet", nargs |-> "true", default |-> FALSE]>>

DriverParser == [prog |-> "build_library.py", arguments |-> DriverArguments, positionals |-> <<>>]

\* Path(__file__).parent / "templates" of build_file_generator.py
DefaultTemplateDir == "/s/generator_tools/templates"

\* the arguments of the parser of the generator's main
GeneratorArguments ==
    <<[strings |-> <<"-h", "--help">>, dest |-> "help", nargs |-> "help", default |-> <<>>],
     [strings |-> <<"--template_dir">>, dest |-> "template_dir", nargs |-> "1",
      default |-> <<DefaultTemplateDir>>],
     [strings |-> <<"--output_dir">>, dest |-> "output_dir", nargs |-> "1", default |-> <<".">>],
     [strings |-> <<"--version">>, dest |-> "version", nargs |-> "1",
      default |-> <<"99.99.99">>]>>

GeneratorParser ==
    [prog |-> "xmsconan_gen", arguments |-> GeneratorArguments, positionals |-> <<"toml_file">>]

\* the option strings of a parser, and the argument an option string belongs to
Elements(seq) == {seq[i] : i \in 1..Len(seq)}
OptionStrings(parser) ==
    UNION {Elements(parser.arguments[i].strings) : i \in 1..Len(parser.arguments)}
ArgumentOf(parser, o) ==
    parser.arguments[CHOOSE i \in 1..Len(parser.arguments) :
                         o \in Elements(parser.arguments[i].strings)]

\* the namespace before the command line is read
Defaults(parser) ==
    [d \in {parser.arguments[i].dest : i \in 1..Len(parser.arguments)} \ {"help"} |->
        parser.arguments[CHOOSE i \in 1..Len(parser.arguments) :
                             parser.arguments[i].dest = d].default]

\* a command-line token that is taken for an option
IsOptionLike(t) == StartsWith(t, "-") /\ Len(t) > 1

\* the option strings a token may name: itself, or the long options it abbreviates
Matches(parser, t) ==
    IF t \in OptionStrings(parser) THEN {t}
    ELSE IF StartsWith(t, "--") THEN {o \in OptionStrings(parser) : StartsWith(o, t)}
    ELSE {}

\* the reading goes on with the tokens `rest`, or ends
GoOn(st, rest) == [st |-> st, rest |-> rest]
UsageError(st, msg) == [st |-> [st EXCEPT !.error = <<msg>>], rest |-> <<>>]
ShowHelp(st) == [st |-> [st EXCEPT !.help = TRUE], rest |-> <<>>]

\* a token that is no option: the next positional, or an extra
ConsumePositional(parser, t, rest, st) ==
    IF Len(st.positional) < Len(parser.positionals)
    THEN GoOn([st EXCEPT !.positional = Append(@, t)], rest)
    ELSE GoOn([st EXCEPT !.extras = Append(@, t)], rest)

\* a long option written --name=value is split at the first '='
OptionParts(parser, t) ==
    IF t \notin OptionStrings(parser) /\ StartsWith(t, "--") /\ Contains(t, "=")
    THEN SplitFirst(t, "=") ELSE <<t>>

\* the option of argument `a` is stored: its explicit value, the next token when it
\* is no option, the constant of nargs='?', or an error
StoreOption(a, rest, st, explicit) ==
    IF a.nargs = "help" THEN ShowHelp(st)
    ELSE IF a.nargs \in {"true", "count"}
    THEN IF explicit # <<>>
         THEN UsageError(st, "argument " \o Join(a.strings, "/")
                                 \o ": ignored explicit argument '" \o explicit[1] \o "'")
         ELSE GoOn([st EXCEPT !.ns[a.dest] = IF a.nargs = "true" THEN TRUE ELSE @ + 1], rest)
    ELSE IF explicit # <<>>
    THEN GoOn([st EXCEPT !.ns[a.dest] = explicit], rest)
    ELSE IF rest # <<>> /\ ~IsOptionLike(Head(rest))
    THEN GoOn([st EXCEPT !.ns[a.dest] = <<Head(rest)>>], Tail(rest))
    ELSE IF a.nargs = "?"
    THEN GoOn([st EXCEPT !.ns[a.dest] = <<>>], rest)
    ELSE UsageError(st, "argument " \o Join(a.strings, "/") \o ": expected one argument")

\* a token that looks like an option: unknown ones are kept as extras, an
\* abbreviation of several options is an error
ConsumeOption(parser, t, rest, st, parts, found) ==
    IF found = {}
    THEN GoOn([st EXCEPT !.extras = Append(@, t)], rest)
    ELSE IF Cardinality(found) > 1
    THEN UsageError(st, "ambiguous option: " \o parts[1] \o " could match "
                            \o Join(Sorted(found), ", "))
    ELSE StoreOption(ArgumentOf(parser, CHOOSE o \in found : TRUE), rest, st,
                     IF Len(parts) = 2 THEN <<parts[2]>> ELSE <<>>)

\* the first token of the command line is read
ConsumeToken(parser, t, rest, st) ==
    IF ~IsOptionLike(t)
    THEN ConsumePositional(parser, t, rest, st)
    ELSE ConsumeOption(parser, t, rest, st, OptionParts(parser, t),
                       Matches(parser, OptionParts(parser, t)[1]))

\* the reading goes on after a step
RECURSIVE ParseTokens(_, _, _)
Continue(parser, step) == ParseTokens(parser, step.rest, step.st)

\* the command line is read from left to right; --help or an error ends the reading
ParseTokens(parser, tokens, st) ==
    IF tokens = <<>> THEN st
    ELSE Continue(parser, ConsumeToken(parser, Head(tokens), Tail(tokens), st))

\* the positionals the command line did not give
MissingPositionals(parser, st) ==
    SubSeq(parser.positionals, Len(st.positional) + 1, Len(parser.positionals))

\* the error of a command line that was read: <<>> if none
ParseError(parser, st) ==
    IF st.error # <<>> THEN st.error
    ELSE IF MissingPositionals(parser, st) # <<>>
    THEN <<"the following arguments are required: "
               \o Join(MissingPositionals(parser, st), ", ")>>
    ELSE IF st.extras # <<>>
    THEN <<"unrecognized arguments: " \o Join(st.extras, " ")>>
    ELSE <<>>

\* the namespace with the positionals
Namespace(parser, st) ==
    Update(st.ns, [k \in Elements(parser.positionals) |->
                      <<st.positional[CHOOSE i \in 1..Len(parser.positionals) :
                                          parser.positionals[i] = k]>>])

\* what parse_args does after the reading
ParseResult(parser, st, error) ==
    IF st.help THEN [exit |-> <<0>>, message |-> "", ns |-> st.ns]
    ELSE IF error # <<>>
    THEN [exit |-> <<2>>, message |-> parser.prog \o ": error: " \o error[1], ns |-> st.ns]
    ELSE [exit |-> <<>>, message |-> "", ns |-> Namespace(parser, st)]

ParseFinish(parser, st) == ParseResult(parser, st, ParseError(parser, st))

\* parser.parse_args(): the namespace, or the exit of the process: code 0 after
\* --help, code 2 with a message on the error stream after an error
ParseArgs(parser, tokens) ==
    ParseFinish(parser, ParseTokens(parser, tokens,
                                    [ns |-> Defaults(parser), positional |-> <<>>,
                                     extras |-> <<>>, help |-> FALSE, error |-> <<>>]))

\* the process ends inside parse_args
ParserExit(parsed) ==
    /\ dexit' = parsed.exit
    /\ stderr' = IF parsed.exit = <<0>> THEN stderr ELSE Append(stderr, parsed.message)
    /\ dpc' = "exited"

\* the namespace of the build driver, as the steps after parse_args read it
DriverNamespace(ns) ==
    [profile |-> ns["profile"],
     cmake_dir |-> ns["cmake_dir"][1],
     build_dir |-> ns["build_dir"][1],
     generator |-> ns["generator"][1],
     python_version |-> ns["python_version"],
     xms_version |-> ns["xms_version"],
     test_files |-> ns["test_files"],
     allow_missing_test_files |-> ns["allow_missing_test_files"],
     dry_run |-> ns["dry_run"]]

\* get_args goes on with the namespace, or the process ends inside parse_args
AfterParseArgs(parsed) ==
    IF parsed.exit # <<>>
    THEN ParserExit(parsed) /\ UNCHANGED args
    ELSE /\ args' = DriverNamespace(parsed.ns)
         /\ dpc' = "get_args"
         /\ UNCHANGED <<stderr, dexit>>

\* get_args up to parse_args: the namespace of the command line
ParseCommandLine ==
    /\ dentry = "main"
    /\ dpc = "parse_args"
    /\ AfterParseArgs(ParseArgs(DriverParser, argv))
    /\ UNCHANGED <<bundled, which, dirs, dentry, conan_cmd, my_cmake_options, cmake_cmd,
                   calls, derr>>
    /\ UNCHANGED <<parseVars, genVars, boolVars, renderVars, packVars, argv>>

\* a call render_template_with_toml(...) of main, with its four keywords
CallRender(a, template_dir, output_dir) ==
    /\ rargs' = [toml_file_path |-> a.toml_file,
                 version |-> a.version,
                 template_dir |-> template_dir,
                 output_dir |-> output_dir,
                 dry_run |-> <<>>,
                 keywords |-> RenderParameters]
    /\ rpc' = "call"
    /\ toml_data' = EmptyMap
    /\ template_files' = <<>>
    /\ ri' = 1

\* the namespace of the generator
GeneratorNamespace(ns) ==
    [toml_file |-> ns["toml_file"][1],
     version |-> ns["version"][1],
     template_dir |-> ns["template_dir"][1],
     output_dir |-> ns["output_dir"][1]]

\* main goes on with the namespace `a`: the first call of the renderer
FirstRender(a) ==
    /\ args' = a
    /\ CallRender(a, a.template_dir, a.output_dir)
    /\ dpc' = "render"
    /\ UNCHANGED <<stderr, dexit>>

\* main goes on, or the process ends inside parse_args
AfterGeneratorParse(parsed) ==
    IF parsed.exit # <<>>
    THEN /\ ParserExit(parsed)
         /\ UNCHANGED <<args, rargs, rpc, toml_data, template_files, ri>>
    ELSE FirstRender(GeneratorNamespace(parsed.ns))

\* main of the generator: parse_args, then the first call of the renderer
GeneratorMain ==
    /\ dentry = "xmsconan_gen"
    /\ dpc = "parse_args"
    /\ AfterGeneratorParse(ParseArgs(GeneratorParser, argv))
    /\ UNCHANGED <<bundled, which, dirs, dentry, conan_cmd, my_cmake_options, cmake_cmd,
                   calls, derr>>
    /\ UNCHANGED <<contents, folders, written, rerr>>
    /\ UNCHANGED <<parseVars, genVars, boolVars, packVars, argv>>

\* os.path.join(args.template_dir, "_package")
PackageTemplateDir(template_dir) == PathJoin(template_dir, "_package")

\* main of the generator after the first call returned: the second call, when the
\* template directory has a _package directory
GeneratorPackage ==
    /\ dentry = "xmsconan_gen"
    /\ dpc = "render"
    /\ rpc = "returned"
    /\ PathIsDir(PackageTemplateDir(args.template_dir))
    /\ CallRender(args, PackageTemplateDir(args.template_dir),
                  PathJoin(args.output_dir, "_package"))
    /\ dpc' = "package"
    /\ UNCHANGED <<args, bundled, which, dirs, dentry, conan_cmd, my_cmake_options, cmake_cmd,
                   calls, derr, stderr, dexit>>
    /\ UNCHANGED <<contents, folders, written, rerr>>
    /\ UNCHANGED <<parseVars, genVars, boolVars, packVars, argv>>

\* mutant: main of the generator ends with code 0 whatever its calls did
GeneratorExitZero ==
    /\ dentry = "xmsconan_gen"
    /\ dpc \in {"render", "package"}
    /\ \/ rpc = "raised"
       \/ /\ rpc = "returned"
          /\ dpc = "render" => ~PathIsDir(PackageTemplateDir(args.template_dir))
    /\ dexit' = <<0>>
    /\ dpc' = "exited"
    /\ UNCHANGED <<args, bundled, which, dirs, dentry, conan_cmd, my_cmake_options, cmake_cmd,
                   calls, derr, stderr>>
    /\ UNCHANGED <<parseVars, genVars, boolVars, renderVars, packVars, argv>>

\* main of the generator ends: it returns after its last call, or the exception of
\* a call is printed and turned into SystemExit(1)
GeneratorExit ==
    /\ dentry = "xmsconan_gen"
    /\ dpc \in {"render", "package"}
    /\ \/ /\ rpc = "raised"
          /\ stderr' = Append(stderr, "Error: " \o rerr[1].msg)
          /\ dexit' = <<1>>
       \/ /\ rpc = "returned"
          /\ dpc = "render" => ~PathIsDir(PackageTemplateDir(args.template_dir))
          /\ dexit' = <<0>>
          /\ UNCHANGED stderr
    /\ dpc' = "exited"
    /\ UNCHANGED <<args, bundled, which, dirs, dentry, conan_cmd, my_cmake_options, cmake_cmd,
                   calls, derr>>
    /\ UNCHANGED <<parseVars, genVars, boolVars, renderVars, packVars, argv>>

\* either script, from its command line to its exit
NextScript ==
    \/ ParseCommandLine
    \/ NextDriver
    \/ GeneratorMain
    \/ NextRender
    \/ GeneratorPackage
    \/ GeneratorExit

----------------------------------------------------------------------------
(* create_build_profile of both implementations, and XmsConanPackager.run *)

\* str(v) of a bool, as an f-string formats it
BoolStr(b) == IF b THEN "True" ELSE "False"

\* str(v) of a value that is None or a str
OptStr(v) == IF v = <<>> THEN "None" ELSE v[1]

RECURSIVE IntStr(_)
\* str(n) of a natural number
IntStr(n) ==
    IF n < 10 THEN Char(Digits, n + 1)
    ELSE IntStr(n \div 10) \o Char(Digits, (n % 10) + 1)

\* tempfile.TemporaryDirectory().name of the packager object
TempDirPath == "/tmp/tmp0"

\* the conanfile_path of the packager object
ConanfilePath == "."

\* the file create_build_profile opens for writing
TempProfilePath(im) ==
    IF im = "packager" THEN PathJoin(TempDirPath, "temp_profile") ELSE "temp_profile"

\* the keys of a configuration that are settings, in the order of the dict: the
\* axes of the table
SettingsKeys(im, platform) ==
    LET table == Configurations(im)[platform] IN [i \in 1..Len(table) |-> table[i][1]]

\* the keys of the options dict and of the buildenv dict, in the order of the dict
OptionsKeys == <<"wchar_t", "pybind", "testing">>
BuildEnvKeys == <<"XMS_VERSION", "PYTHON_TARGET_VERSION", "CI_COMMIT_TAG", "RELEASE_PYTHON",
                  "AQUAPI_USERNAME", "AQUAPI_PASSWORD", "AQUAPI_URL">>

\* str(v) of the value of an option
OptionStr(o, k) == IF k = "wchar_t" THEN o[k] ELSE BoolStr(o[k])

\* mutant: the packager scopes the option to the package by name
OptionLineNamed(im, k, v) ==
    (IF im = "packager" THEN "xmscore/*:" ELSE "") \o k \o "=" \o v \o "\n"

\* the line written for an option: the packager marks it with the root scope
OptionLine(im, k, v) == (IF im = "packager" THEN "&:" ELSE "") \o k \o "=" \o v \o "\n"

\* all that create_build_profile writes for configuration c, whose dicts are in h
ProfileText(im, platform, c, h) ==
    LET keys == SettingsKeys(im, platform)
        o == h[c.options]
        b == h[c.buildenv]
    IN "[settings]\n"
       \o Join([i \in 1..Len(keys) |-> keys[i] \o "=" \o c.settings[keys[i]] \o "\n"], "")
       \o "\n[options]\n"
       \o Join([i \in 1..Len(OptionsKeys) |->
                   OptionLine(im, OptionsKeys[i], OptionStr(o, OptionsKeys[i]))], "")
       \o "\n[buildenv]\n"
       \o Join([i \in 1..Len(BuildEnvKeys) |->
                   BuildEnvKeys[i] \o "=" \o OptStr(b[BuildEnvKeys[i]]) \o "\n"], "")

\* what create_build_profile returns: the packager gives the path, the helper None
ProfileReturn(im) == IF im = "packager" THEN <<TempProfilePath(im)>> ELSE <<>>

\* create_build_profile(configuration) for an entry of the generated list
CreateBuildProfile ==
    /\ kpc = "create_build_profile"
    /\ gpc = "done"
    /\ \E i \in 1..Len(gresult) :
        /\ configuration' = <<gresult[i]>>
        /\ contents' = Put(contents, Abspath(TempProfilePath(impl)),
                           ProfileText(impl, ResolvePlatform(impl, arg, host), gresult[i], heap))
    /\ exists' = exists \cup {Abspath(TempProfilePath(impl))}
    /\ profile_path' = ProfileReturn(impl)
    /\ kpc' = "written"
    /\ UNCHANGED <<pool, limit, text, top, stack, visited, result, pstate, opened, steps>>
    /\ UNCHANGED <<rargs, folders, rpc, toml_data, template_files, ri, written, rerr>>
    /\ UNCHANGED <<tool, built, failing_configurations, kerr>>
    /\ UNCHANGED <<genVars, boolVars, driverVars, argv>>

\* the written profile is given to _parse_profile_options
ParseWrittenProfile ==
    /\ kpc = "written"
    /\ pstate = "off"
    /\ top' = TempProfilePath(impl)
    /\ pstate' = "idle"
    /\ kpc' = "parse"
    /\ UNCHANGED <<exists, pool, limit, text, stack, visited, result, opened, steps>>
    /\ UNCHANGED <<tool, built, failing_configurations, kerr, profile_path, configuration>>
    /\ UNCHANGED <<genVars, boolVars, driverVars, renderVars, argv>>

\* the parameters of print_configuration_table(self), and the positional arguments
\* of the call self.print_configuration_table(self.configurations)
TableParameters == <<"self">>
TableArguments == <<"self", "self.configurations">>

\* subprocess.call(cmd) for configuration number i: the exit code of the tool
ToolExit(i) == IF i \in tool THEN 1 ELSE 0

\* the command of configuration number i
CreateCommand == <<"conan", "create", ConanfilePath, "--profile", TempProfilePath("packager")>>

RECURSIVE RunLoop(_, _)
\* the loop of run from configuration number i on: the profile is written, the
\* tool is called, a non-zero exit code is recorded and the loop goes on
RunLoop(i, state) ==
    IF i > Len(gresult) THEN state
    ELSE LET exit_code == ToolExit(i) IN
         RunLoop(i + 1,
                 [files |-> Put(state.files, Abspath(TempProfilePath("packager")),
                                ProfileText("packager", ResolvePlatform("packager", arg, host),
                                            gresult[i], heap)),
                  built |-> Append(state.built,
                                   [number |-> i, cmd |-> CreateCommand,
                                    returncode |-> exit_code]),
                  failing |-> IF exit_code = 0 THEN state.failing
                              ELSE Append(state.failing, IntStr(i))])

\* XmsConanPackager.run(): the call of print_configuration_table comes first
Run ==
    /\ kpc = "run"
    /\ gpc = "done"
    /\ IF Len(TableArguments) > Len(TableParameters)
       THEN /\ kerr' = Raised("TypeError",
                              "XmsConanPackager.print_configuration_table() takes "
                              \o IntStr(Len(TableParameters)) \o " positional argument but "
                              \o IntStr(Len(TableArguments)) \o " were given")
            /\ kpc' = "raised"
            /\ UNCHANGED <<built, failing_configurations, contents, exists>>
       ELSE LET end == RunLoop(1, [files |-> contents, built |-> <<>>, failing |-> <<>>]) IN
            /\ built' = end.built
            /\ failing_configurations' = end.failing
            /\ contents' = end.files
            /\ exists' = exists \cup (DOMAIN end.files \ DOMAIN contents)
            /\ kpc' = "returned"
            /\ UNCHANGED kerr
    /\ UNCHANGED <<pool, limit, text, top, stack, visited, result, pstate, opened, steps>>
    /\ UNCHANGED <<rargs, folders, rpc, toml_data, template_files, ri, written, rerr>>
    /\ UNCHANGED <<tool, profile_path, configuration>>
    /\ UNCHANGED <<genVars, boolVars, driverVars, argv>>

\* a script that generates the configurations and runs the builds
NextPackage ==
    \/ NextGen
    \/ Run

\* a script that generates the configurations, writes the profile of one of them
\* and reads it back
NextProfile ==
    \/ NextGen
    \/ CreateBuildProfile
    \/ ParseWrittenProfile
    \/ ParseCall
    \/ SkipLine
    \/ SectionLine
    \/ IgnoreLine
    \/ AssignLine
    \/ ReturnOptions

----------------------------------------------------------------------------
(* initial states *)

Unset == <<>>

\* the parser before any call, for the specifications that do not run it
ParserIdle ==
    /\ exists = {}
    /\ pool = EmptyMap
    /\ limit = EmptyMap
    /\ text = EmptyMap
    /\ top = ""
    /\ stack = <<>>
    /\ visited = {}
    /\ result = EmptyMap
    /\ pstate = "off"
    /\ opened = EmptyMap
    /\ steps = 0

\* the generator before any call, for the specifications that do not run it
GeneratorIdle ==
    /\ impl = "packager"
    /\ arg = <<>>
    /\ host = "linux"
    /\ env = EmptyMap
    /\ gpc = "off"
    /\ gi = 1
    /\ locals = EmptyMap
    /\ combinations = <<>>
    /\ heap = <<>>
    /\ wchar_t_updated_builds = <<>>
    /\ pybind_updated_builds = <<>>
    /\ testing_updated_builds = <<>>
    /\ gresult = <<>>
    /\ gerr = "none"

\* the boolean normaliser before any call, for the specifications that do not run it
BoolIdle ==
    /\ bvalue = <<>>
    /\ ballow = FALSE
    /\ breturn = <<>>

\* the build driver before any call, for the specifications that do not run it
DriverIdle ==
    /\ args = EmptyMap
    /\ bundled = {}
    /\ which = EmptyMap
    /\ dirs = {}
    /\ dentry = "none"
    /\ dpc = "off"
    /\ conan_cmd = <<>>
    /\ my_cmake_options = <<>>
    /\ cmake_cmd = <<>>
    /\ calls = <<>>
    /\ derr = <<>>
    /\ stderr = <<>>
    /\ dexit = <<>>
    /\ argv = <<>>

\* the packager before any call, for the specifications that do not run it
PackagerIdle ==
    /\ tool = {}
    /\ kpc = "off"
    /\ built = <<>>
    /\ failing_configurations = <<>>
    /\ kerr = <<>>
    /\ profile_path = <<>>
    /\ configuration = <<>>

\* the renderer before any call, for the specifications that do not run it
RenderIdle ==
    /\ rargs = EmptyMap
    /\ contents = EmptyMap
    /\ folders = {}
    /\ rpc = "off"
    /\ toml_data = EmptyMap
    /\ template_files = <<>>
    /\ ri = 1
    /\ written = <<>>
    /\ rerr = <<>>

\* the platform names a caller may pass, defined in either table or in neither
Platforms == {"windows", "linux", "darwin", "macos", "freebsd"}

\* what platform.system().lower() can be
Hosts == {"windows", "linux", "darwin"}

\* the environments: each designated variable unset or set
Environments ==
    {[XMS_VERSION           |-> x,
      PYTHON_TARGET_VERSION |-> Unset,
      CI_COMMIT_TAG         |-> t,
      RELEASE_PYTHON        |-> r,
      AQUAPI_USERNAME       |-> Unset,
      AQUAPI_PASSWORD       |-> Unset,
      AQUAPI_URL            |-> u] :
        x \in {Unset, <<"7.0.0">>}, t \in {Unset, <<"v7.0.0">>},
        r \in {Unset, <<"True">>}, u \in {Unset, <<"https://aquapi">>}}

\* the profiles of the working directory: A is the one the call names
PathA == Cwd \o "/A"
PathB == Cwd \o "/B"

\* the most lines of the including profile and of the included profile
MaxTopLines == 3
MaxBaseLines == 3

\* the lines of the including profile A
TopPool == {"", "include(B)", "[options]", "k=1", "x/*:k=3"}

\* the lines of the included profile B
BasePool == {"include(A)", "[options]", "&:k=2", "&:x:j=3"}

\* the parser before the call on profile A, with the files and their possible lines
ParserStart(files, poolA, poolB, maxA, maxB) ==
    /\ exists = files
    /\ pool = [f \in {PathA, PathB} |-> IF f = PathA THEN poolA ELSE poolB]
    /\ limit = [f \in {PathA, PathB} |-> IF f = PathA THEN maxA ELSE maxB]
    /\ text = [f \in {PathA, PathB} |-> <<>>]
    /\ top = "A"
    /\ stack = <<>>
    /\ visited = {}
    /\ result = EmptyMap
    /\ pstate = "idle"
    /\ opened = [f \in {PathA, PathB} |-> 0]
    /\ steps = 0

\* profile A includes, or not, a profile B that exists, or not
InitParse ==
    /\ PackagerIdle
    /\ RenderIdle
    /\ DriverIdle
    /\ GeneratorIdle
    /\ BoolIdle
    /\ \E files \in SUBSET {PathA, PathB} :
           ParserStart(files, TopPool, BasePool, MaxTopLines, MaxBaseLines)

SpecParse == InitParse /\ [][NextParse]_vars

\* the lines of profiles A and B that include each other and set different keys
CycleTopPool == {"# a", "include(B)", "[options]", "k=1"}
CycleBasePool == {"include(A)", "[options]", "&:j=2", "&:k=2"}

\* both profiles exist; each may include the other
InitCycle ==
    /\ PackagerIdle
    /\ RenderIdle
    /\ DriverIdle
    /\ GeneratorIdle
    /\ BoolIdle
    /\ ParserStart({PathA, PathB}, CycleTopPool, CycleBasePool, MaxTopLines, MaxBaseLines)

SpecCycle == InitCycle /\ [][NextParse]_vars

\* the most lines of a profile with several sections
MaxSectionLines == 4

\* the lines of a profile with section headers in either case, pairs with and
\* without the root scope marker, and a value that holds '='
SectionPool ==
    {"# c", "include(B)", "[OPTIONS]", "[settings]", "k=a=b", "&:k=v", " j = 1 ", "k=w"}

\* profile A alone: what it includes does not exist
InitSection ==
    /\ PackagerIdle
    /\ RenderIdle
    /\ DriverIdle
    /\ GeneratorIdle
    /\ BoolIdle
    /\ ParserStart({PathA}, SectionPool, {}, MaxSectionLines, 0)

SpecSection == InitSection /\ [][NextParse]_vars

\* a third profile of the working directory
PathC == Cwd \o "/C"

\* the most lines of the profile that includes, and of the profiles it includes
MaxRepeatLines == 4
MaxSharedLines == 2

\* the lines of profile A, which may include B and C, each more than once
RepeatTopPool == {"include(B)", "include(C)", "[options]", "k=2"}

\* the lines of profile B, which may include C
RepeatBasePool == {"# c", "include(C)"}

\* the lines of profile C
RepeatSharedPool == {"[options]", "k=1"}

\* profiles A, B and C exist; A is the one the call names
InitRepeat ==
    /\ PackagerIdle
    /\ RenderIdle
    /\ DriverIdle
    /\ GeneratorIdle
    /\ BoolIdle
    /\ exists = {PathA, PathB, PathC}
    /\ pool = (PathA :> RepeatTopPool) @@ (PathB :> RepeatBasePool)
                  @@ (PathC :> RepeatSharedPool)
    /\ limit = (PathA :> MaxRepeatLines) @@ (PathB :> MaxSharedLines)
                   @@ (PathC :> MaxSharedLines)
    /\ text = [f \in {PathA, PathB, PathC} |-> <<>>]
    /\ top = "A"
    /\ stack = <<>>
    /\ visited = {}
    /\ result = EmptyMap
    /\ pstate = "idle"
    /\ opened = [f \in {PathA, PathB, PathC} |-> 0]
    /\ steps = 0

SpecRepeat == InitRepeat /\ [][NextParse]_vars

InitGen ==
    /\ PackagerIdle
    /\ RenderIdle
    /\ DriverIdle
    /\ ParserIdle
    /\ BoolIdle
    /\ impl \in {"packager", "conan2_helpers"}
    /\ arg \in {<<>>} \cup {<<p>> : p \in Platforms}
    /\ host \in (IF arg = <<>> /\ impl = "packager" THEN Hosts ELSE {"linux"})
    /\ env \in Environments
    /\ gpc = "start"
    /\ gi = 1
    /\ locals = EmptyMap
    /\ combinations = <<>>
    /\ heap = <<>>
    /\ wchar_t_updated_builds = <<>>
    /\ pybind_updated_builds = <<>>
    /\ testing_updated_builds = <<>>
    /\ gresult = <<>>
    /\ gerr = "none"

SpecGen == InitGen /\ [][NextGen]_vars

\* the configurations whose build may fail are those numbered up to this
MaxFailing == 2

\* the generator before its call with the given implementation, platform argument,
\* host and environment
GeneratorStart(im) ==
    /\ impl = im
    /\ arg \in {<<>>} \cup {<<p>> : p \in Platforms}
    /\ host \in (IF arg = <<>> /\ impl = "packager" THEN Hosts ELSE {"linux"})
    /\ env \in Environments
    /\ gpc = "start"
    /\ gi = 1
    /\ locals = EmptyMap
    /\ combinations = <<>>
    /\ heap = <<>>
    /\ wchar_t_updated_builds = <<>>
    /\ pybind_updated_builds = <<>>
    /\ testing_updated_builds = <<>>
    /\ gresult = <<>>
    /\ gerr = "none"

\* packager.generate_configurations(platform) then packager.run(), with a tool
\* that fails for some of the configurations
InitPackage ==
    /\ RenderIdle
    /\ DriverIdle
    /\ ParserIdle
    /\ BoolIdle
    /\ GeneratorStart("packager")
    /\ tool \in SUBSET (1..MaxFailing)
    /\ kpc = "run"
    /\ built = <<>>
    /\ failing_configurations = <<>>
    /\ kerr = <<>>
    /\ profile_path = <<>>
    /\ configuration = <<>>

SpecPackage == InitPackage /\ [][NextPackage]_vars

\* generate_configurations(platform) of either implementation, then
\* create_build_profile for one entry and _parse_profile_options of the file
InitProfile ==
    /\ RenderIdle
    /\ DriverIdle
    /\ BoolIdle
    /\ \E im \in {"packager", "conan2_helpers"} :
        /\ GeneratorStart(im)
        /\ text = [f \in {Abspath(TempProfilePath(im))} |-> <<>>]
        /\ opened = [f \in {Abspath(TempProfilePath(im))} |-> 0]
    /\ exists = {}
    /\ pool = EmptyMap
    /\ limit = EmptyMap
    /\ top = ""
    /\ stack = <<>>
    /\ visited = {}
    /\ result = EmptyMap
    /\ pstate = "off"
    /\ steps = 0
    /\ tool = {}
    /\ kpc = "create_build_profile"
    /\ built = <<>>
    /\ failing_configurations = <<>>
    /\ kerr = <<>>
    /\ profile_path = <<>>
    /\ configuration = <<>>

SpecProfile == InitProfile /\ [][NextProfile]_vars

\* the words a profile may give an option, in several spellings
BoolWords ==
    {"true", "True", "TRUE", "1", "yes", "Yes", "on", "ON", "builtin", "BUILTIN",
     "Builtin", "false", "False", "0", "no", "off", "typedef", "", "tru", "11",
     "true on"}

\* the white space that may surround a word
BoolPaddings == {"", " "}

\* the arguments of a call: None, or a word with or without white space around it
BoolValues ==
    {<<>>} \cup {<<l \o w \o r>> : l \in BoolPaddings, w \in BoolWords, r \in BoolPaddings}

InitBool ==
    /\ PackagerIdle
    /\ RenderIdle
    /\ DriverIdle
    /\ ParserIdle
    /\ GeneratorIdle
    /\ bvalue \in BoolValues
    /\ ballow \in BOOLEAN
    /\ breturn = <<>>

SpecBool == InitBool /\ [][NextBool]_vars

\* the bundled profiles, and the profiles of the working directory
BundledNames == {"P", "P_d"}
BundledP == Abspath(PathJoin(ProfilesDir, "P"))
BundledPd == Abspath(PathJoin(ProfilesDir, "P_d"))
LocalA == Abspath("A")
LocalP == Abspath("P")
ProfileFiles == {BundledP, BundledPd, LocalA, LocalP}

\* the most lines of a profile the build driver reads
DriverMaxLines == 3

\* the parser as the build driver finds it: not yet called, the profiles given
DriverProfiles(files, lines) ==
    /\ exists = files
    /\ pool = [f \in ProfileFiles |-> lines]
    /\ limit = [f \in ProfileFiles |-> DriverMaxLines]
    /\ text = [f \in ProfileFiles |-> <<>>]
    /\ top = ""
    /\ stack = <<>>
    /\ visited = {}
    /\ result = EmptyMap
    /\ pstate = "off"
    /\ opened = [f \in ProfileFiles |-> 0]
    /\ steps = 0

\* the build driver as `entry` is called, at its first step `pc`
DriverStart(entry, pc) ==
    /\ bundled = BundledNames
    /\ dentry = entry
    /\ dpc = pc
    /\ conan_cmd = <<>>
    /\ my_cmake_options = <<>>
    /\ cmake_cmd = <<>>
    /\ calls = <<>>
    /\ derr = <<>>
    /\ stderr = <<>>
    /\ dexit = <<>>

\* where the tools are: on PATH, in the environment of the interpreter, nowhere
VenvCmake == PathJoin(PathJoin(SysPrefix, "bin"), "cmake")
ToolSetups ==
    {[which |-> [t \in {"conan", "cmake"} |-> <<"/usr/bin/" \o t>>], files |-> {}],
     [which |-> [t \in {"conan", "cmake"} |->
                    IF t = "conan" THEN <<"/usr/bin/conan">> ELSE <<>>],
      files |-> {VenvCmake}],
     [which |-> [t \in {"conan", "cmake"} |->
                    IF t = "conan" THEN <<"/usr/bin/conan">> ELSE <<>>],
      files |-> {}],
     [which |-> [t \in {"conan", "cmake"} |-> <<>>], files |-> {}]}

\* the lines of a profile the script is run with
MainPool == {"", "include(B)", "[options]", "testing=True"}

\* the script is run: main() with a command line, in a working directory without
\* test files
InitDriver ==
    /\ PackagerIdle
    /\ argv = <<>>
    /\ RenderIdle
    /\ GeneratorIdle
    /\ BoolIdle
    /\ DriverStart("main", "get_args")
    /\ \E tools \in ToolSetups, locals_ \in SUBSET {LocalA, LocalP} :
           /\ which = tools.which
           /\ DriverProfiles({BundledP, BundledPd} \cup locals_ \cup tools.files, MainPool)
    /\ dirs \in {{"/", Cwd}, {"/", Cwd, Abspath("./builds")}}
    /\ args \in [profile : {<<>>, <<"P">>, <<"A">>},
                  cmake_dir : {"."},
                  build_dir : {"./builds"},
                  generator : {"ninja", "make", "nmake"},
                  python_version : {<<>>},
                  xms_version : {<<"7.0.0">>},
                  test_files : {<<>>},
                  allow_missing_test_files : BOOLEAN,
                  dry_run : BOOLEAN]

SpecDriver == InitDriver /\ [][NextDriver]_vars

\* the lines of a profile that may enable testing, binding and wide characters
CmakePool == {"", "include(B)", "[options]", "testing=True", "pybind=ON", "wchar_t=BUILTIN"}

\* the directories of test files that may exist
TestDirs == {Abspath("./test_files"), Abspath("t")}

\* get_cmake_options(args) is called with a resolved profile
InitCmake ==
    /\ PackagerIdle
    /\ argv = <<>>
    /\ RenderIdle
    /\ GeneratorIdle
    /\ BoolIdle
    /\ DriverStart("get_cmake_options", "get_cmake_options")
    /\ which = [t \in {"conan", "cmake"} |-> <<"/usr/bin/" \o t>>]
    /\ DriverProfiles({BundledP, BundledPd}, CmakePool)
    /\ \E found \in SUBSET TestDirs : dirs = {"/", Cwd} \cup found
    /\ args \in [profile : {<<BundledP>>, <<BundledPd>>},
                  cmake_dir : {"."},
                  build_dir : {"./builds"},
                  generator : {"ninja"},
                  python_version : {<<>>, <<"3.10">>},
                  xms_version : {<<>>},
                  test_files : {<<>>, <<"t">>, <<"NONE">>},
                  allow_missing_test_files : BOOLEAN,
                  dry_run : {FALSE}]

SpecCmake == InitCmake /\ [][NextCmake]_vars

\* the data file, the template directory and its files
TomlPath == Abspath("build.toml")
TemplateDir == Abspath("templates")
SampleTemplate == PathJoin(TemplateDir, "sample.txt.jinja")
OtherTemplate == PathJoin(TemplateDir, "a.txt.jinja")
NotesFile == PathJoin(TemplateDir, "notes.md")

\* the texts of the data file, the last one no TOML
TomlPool ==
    {"library_name=\"xmscore\"\ndescription=\"desc\"\n",
     "description = \"desc\"\n",
     "testing_framework=\"gtest\"\nlibrary_name=\"xmscore\"",
     "oops"}

\* the texts of the two templates
SamplePool == {"version={{ version }}\n", "fw={{testing_framework}} {{ description }}"}
OtherPool == {"name={{ library_name }}\n", "{{ missing }}\n"}

\* a file with one of the given texts, or no file
MaybeFile(path, texts) ==
    {EmptyMap} \cup {[f \in {path} |-> t] : t \in texts}

\* the keyword arguments of a call, with or without dry_run
Keywords(dry_run) == RenderParameters \cup (IF dry_run = <<>> THEN {} ELSE {"dry_run"})

\* render_template_with_toml is called: the data file and the template directory
\* exist or not, the directory holds up to two templates and a file that is none
InitRender ==
    /\ PackagerIdle
    /\ ParserIdle
    /\ GeneratorIdle
    /\ BoolIdle
    /\ DriverIdle
    /\ \E toml \in MaybeFile(TomlPath, TomlPool),
          sample \in MaybeFile(SampleTemplate, SamplePool),
          other \in MaybeFile(OtherTemplate, OtherPool),
          has_dir \in BOOLEAN, has_output \in BOOLEAN :
           /\ has_dir \/ (sample = EmptyMap /\ other = EmptyMap)
           /\ contents = Update(Update(toml, IF has_dir THEN Update(sample, other)
                                                        ELSE EmptyMap),
                                IF has_dir THEN [f \in {NotesFile} |-> "notes"]
                                ELSE EmptyMap)
           /\ folders = {"/", Cwd} \cup (IF has_dir THEN {TemplateDir} ELSE {})
                             \cup (IF has_output THEN {Abspath("output")} ELSE {})
    /\ \E dry_run \in {<<>>, <<TRUE>>, <<FALSE>>}, template_dir \in {"templates", "build.toml"} :
           rargs = [toml_file_path |-> "build.toml",
                    version |-> "1.2.3",
                    template_dir |-> template_dir,
                    output_dir |-> "output",
                    dry_run |-> dry_run,
                    keywords |-> Keywords(dry_run)]
    /\ rpc = "call"
    /\ toml_data = EmptyMap
    /\ template_files = <<>>
    /\ ri = 1
    /\ written = <<>>
    /\ rerr = <<>>

SpecRender == InitRender /\ [][NextRender]_vars

\* the command lines of the build driver: accepted ones, and ones argparse rejects
DriverCommandLines ==
    {<<>>,
     <<"--help">>,
     <<"--profile", "P", "--dry-run">>,
     <<"--dry", "-p", "P", "-v", "-v">>,
     <<"-p", "A">>,
     <<"-p", "nope">>,
     <<"--profile=P", "-g", "nmake">>,
     <<"--bogus">>,
     <<"--p", "P">>,
     <<"-p", "P", "extra">>,
     <<"--quiet=1", "-p", "P">>}

\* the command lines of the generator
GeneratorCommandLines ==
    {<<>>,
     <<"-h">>,
     <<"build.toml">>,
     <<"--template_dir", "templates", "--output_dir", "output", "build.toml">>,
     <<"--template_dir=templates", "build.toml", "--vers", "1.2.3">>,
     <<"--version", "build.toml">>,
     <<"--template_dir">>,
     <<"build.toml", "--bogus">>}

\* the template of the default template directory, and the one of the _package
\* directory of the given template directory
DefaultTemplate == PathJoin(DefaultTemplateDir, "CMakeLists.txt.jinja")
PackageTemplate == PathJoin(PackageTemplateDir(TemplateDir), "conanfile.py.jinja")

\* the build driver is run with a command line
InitDriverScript ==
    /\ RenderIdle
    /\ DriverStart("main", "parse_args")
    /\ args = EmptyMap
    /\ argv \in DriverCommandLines
    /\ \E tools \in ToolSetups, locals_ \in SUBSET {LocalA} :
           /\ which = tools.which
           /\ DriverProfiles({BundledP, BundledPd} \cup locals_ \cup tools.files, MainPool)
    /\ dirs = {"/", Cwd}

\* the generator is run with a command line: the data file, the templates and the
\* _package directory exist or not
InitGeneratorScript ==
    /\ ParserIdle
    /\ DriverStart("xmsconan_gen", "parse_args")
    /\ args = EmptyMap
    /\ argv \in GeneratorCommandLines
    /\ which = EmptyMap
    /\ dirs = {}
    /\ \E toml \in MaybeFile(TomlPath, TomlPool),
          sample \in MaybeFile(SampleTemplate, SamplePool),
          package \in MaybeFile(PackageTemplate, OtherPool),
          has_package \in BOOLEAN, has_default \in BOOLEAN :
           /\ has_package \/ package = EmptyMap
           /\ contents = Update(Update(toml, Update(sample, package)),
                                IF has_default
                                THEN [f \in {DefaultTemplate} |-> "version={{ version }}\n"]
                                ELSE EmptyMap)
           /\ folders = {"/", Cwd, TemplateDir}
                             \cup (IF has_package THEN {PackageTemplateDir(TemplateDir)} ELSE {})
                             \cup (IF has_default THEN {DefaultTemplateDir} ELSE {})
    /\ rargs = EmptyMap
    /\ rpc = "off"
    /\ toml_data = EmptyMap
    /\ template_files = <<>>
    /\ ri = 1
    /\ written = <<>>
    /\ rerr = <<>>

\* one of the two scripts is run
InitScript ==
    \/ PackagerIdle /\ GeneratorIdle /\ BoolIdle /\ InitDriverScript
    \/ PackagerIdle /\ GeneratorIdle /\ BoolIdle /\ InitGeneratorScript

SpecScript == InitScript /\ [][NextScript]_vars

----------------------------------------------------------------------------
(* properties of _parse_profile_options *)

ParseDone == pstate = "done"

RECURSIVE Assignments(_, _, _)
\* the key=value lines of the [options] sections of a text, in order, each with
\* its line number: what the file itself assigns
Assignments(lines, i, section) ==
    IF i > Len(lines) THEN <<>>
    ELSE LET line == Strip(lines[i]) IN
         IF IsBlankOrComment(line) \/ IsInclude(line)
         THEN Assignments(lines, i + 1, section)
         ELSE IF IsSection(line)
         THEN Assignments(lines, i + 1, <<SectionName(line)>>)
         ELSE IF section # <<"options">> \/ ~Contains(line, "=")
         THEN Assignments(lines, i + 1, section)
         ELSE <<[index |-> i, key |-> OptionKey(line), value |-> OptionValue(line)]>>
              \o Assignments(lines, i + 1, section)

\* the unscoped assignments of the file at path f
OwnAssignments(f) ==
    SelectSeq(Assignments(text[f], 1, NoSection),
              LAMBDA a : ~(Contains(a.key, "/") \/ Contains(a.key, ":")))

\* the scoped assignments of the file at path f
ScopedAssignments(f) ==
    SelectSeq(Assignments(text[f], 1, NoSection),
              LAMBDA a : Contains(a.key, "/") \/ Contains(a.key, ":"))

OwnKeys(f) == {OwnAssignments(f)[i].key : i \in 1..Len(OwnAssignments(f))}

\* the line of the last assignment of key k in the file at path f
LastAssignment(f, k) ==
    LET own == OwnAssignments(f)
        last == CHOOSE i \in 1..Len(own) :
                    own[i].key = k /\ \A j \in (i + 1)..Len(own) : own[j].key # k
    IN own[last]

\* the value the file at path f gives key k
OwnValue(f, k) == LastAssignment(f, k).value

\* the lines of the file at path f that include the file at path g
IncludeLines(f, g) ==
    {i \in 1..Len(text[f]) :
        LET line == Strip(text[f][i]) IN
        /\ ~IsBlankOrComment(line)
        /\ IsInclude(line)
        /\ Abspath(IncludePath(Dirname(f), IncludeTarget(line))) = g}

Includes(f, g) == IncludeLines(f, g) # {}

FirstInclude(f, g) == CHOOSE i \in IncludeLines(f, g) : \A j \in IncludeLines(f, g) : i <= j

\* profile A was parsed and includes the existing base profile B
IncludesBase == ParseDone /\ PathA \in exists /\ PathB \in exists /\ Includes(PathA, PathB)

\* C1 as stated: for a profile P that includes base profile B, every option of B
\* that P does not set has B's value, and every option set in both has P's value.
C1_IncluderAlwaysWins ==
    IncludesBase =>
        \A k \in OwnKeys(PathB) :
            /\ k \in DOMAIN result
            /\ result[k] = IF k \in OwnKeys(PathA) THEN OwnValue(PathA, k)
                           ELSE OwnValue(PathB, k)

\* C1 amended: for a profile P that includes base profile B, every option of B
\* that P does not set has B's value; an option set in both has P's value when P's
\* last assignment of it comes after the include directive, and B's value when
\* every assignment of it in P comes before the include directive.
C1_IncludeThenOverride ==
    IncludesBase =>
        \A k \in OwnKeys(PathB) :
            /\ k \in DOMAIN result
            /\ result[k] =
                   IF /\ k \in OwnKeys(PathA)
                      /\ LastAssignment(PathA, k).index > FirstInclude(PathA, PathB)
                   THEN OwnValue(PathA, k)
                   ELSE OwnValue(PathB, k)

\* P includes B and then overrides an option of B
C1_Witness ==
    /\ IncludesBase
    /\ "k" \in OwnKeys(PathA) \cap OwnKeys(PathB)
    /\ LastAssignment(PathA, "k").index > FirstInclude(PathA, PathB)
    /\ OwnValue(PathA, "k") # OwnValue(PathB, "k")
    /\ result["k"] = OwnValue(PathA, "k")

\* the files of the working directory
Files == DOMAIN text

RECURSIVE SumOver(_, _)
SumOver(S, f) ==
    IF S = {} THEN 0 ELSE LET x == CHOOSE y \in S : TRUE IN f[x] + SumOver(S \ {x}, f)

\* C2: parsing profiles that include each other terminates without unbounded
\* recursion: no file is opened twice, the call stack is never deeper than the
\* number of files, the number of steps is bounded by the lines of the files; and
\* the result holds exactly the unscoped options of both files, each with the
\* value one of the two files gives it.
C2_CyclicIncludes ==
    /\ \A f \in Files : opened[f] <= 1
    /\ Len(stack) <= Cardinality(exists)
    /\ steps <= 1 + SumOver(exists, [f \in Files |-> limit[f] + 1])
    /\ (ParseDone /\ Includes(PathA, PathB) /\ Includes(PathB, PathA)) =>
           /\ DOMAIN result = OwnKeys(PathA) \cup OwnKeys(PathB)
           /\ \A k \in DOMAIN result :
                  \E f \in {PathA, PathB} : k \in OwnKeys(f) /\ result[k] = OwnValue(f, k)

\* A includes B, B includes A, each sets an option the other does not
C2_Witness ==
    /\ ParseDone
    /\ Includes(PathA, PathB)
    /\ Includes(PathB, PathA)
    /\ "k" \in OwnKeys(PathA) \ OwnKeys(PathB)
    /\ "j" \in OwnKeys(PathB) \ OwnKeys(PathA)

\* C3: no key of the map a call returns, to its caller or to the user, contains
\* '/' or ':'.
C3_NoScopedKeys ==
    /\ \A k \in DOMAIN result : ~Contains(k, "/") /\ ~Contains(k, ":")
    /\ \A i \in 1..Len(stack) :
           \A k \in DOMAIN stack[i].options : ~Contains(k, "/") /\ ~Contains(k, ":")

\* both files of the include chain assign scoped keys under [options], and the
\* call returned the unscoped ones
C3_Witness ==
    /\ ParseDone
    /\ Includes(PathA, PathB)
    /\ ScopedAssignments(PathA) # <<>>
    /\ ScopedAssignments(PathB) # <<>>
    /\ DOMAIN result # {}

\* what the file at path f assigns by itself, as a map
OwnOptions(f) == [k \in OwnKeys(f) |-> OwnValue(f, k)]

\* C20: a path that is no file, at top level or in an include directive, and a
\* path already visited contribute an empty map without an error: such a file is
\* never opened or read, no file is opened twice, the call can always go on to its
\* return, and the options of the other files are returned: none for a missing
\* top-level profile, the profile's own options when its include is missing, and
\* the options of both files when they exist and include each other.
C20_MissingAndVisitedSkipped ==
    /\ \A f \in Files : f \notin exists => opened[f] = 0 /\ text[f] = <<>>
    /\ \A f \in Files : opened[f] <= 1
    /\ pstate \in {"idle", "running", "done"}
    /\ pstate = "idle" => ENABLED ParseCall
    /\ pstate = "running" => ENABLED ReturnOptions
    /\ (ParseDone /\ PathA \notin exists) => result = EmptyMap
    /\ (ParseDone /\ PathA \in exists /\ PathB \notin exists) => result = OwnOptions(PathA)
    /\ (ParseDone /\ PathA \in exists /\ PathB \in exists) =>
           DOMAIN result =
               OwnKeys(PathA) \cup (IF Includes(PathA, PathB) THEN OwnKeys(PathB) ELSE {})

\* profile A sets an option and includes a profile B that does not exist
C20_Witness ==
    /\ ParseDone
    /\ PathA \in exists
    /\ PathB \notin exists
    /\ Includes(PathA, PathB)
    /\ result = OwnOptions(PathA)
    /\ "k" \in DOMAIN result

\* the section headers of SectionPool that name the options section, and the others
OptionsHeaders == {"[OPTIONS]"}
OtherHeaders == {"[settings]"}

\* the pairs of SectionPool: the key and the value each line stands for
PairLines ==
    ("k=a=b" :> [key |-> "k", value |-> "a=b"]) @@
    ("&:k=v" :> [key |-> "k", value |-> "v"]) @@
    (" j = 1 " :> [key |-> "j", value |-> "1"]) @@
    ("k=w" :> [key |-> "k", value |-> "w"])

\* the last section header above line i of the lines, 0 when there is none
HeaderAbove(lines, i) ==
    LET above == {j \in 1..(i - 1) : lines[j] \in OptionsHeaders \cup OtherHeaders}
    IN  IF above = {} THEN 0 ELSE CHOOSE j \in above : \A h \in above : h <= j

\* the pair lines that stand under a header of the options section
UnderOptions(lines) ==
    {i \in 1..Len(lines) :
        /\ lines[i] \in DOMAIN PairLines
        /\ HeaderAbove(lines, i) > 0
        /\ lines[HeaderAbove(lines, i)] \in OptionsHeaders}

\* the map those lines give: each key with the value of its last line
PairsOf(lines) ==
    LET under == UnderOptions(lines)
        keys == {PairLines[lines[i]].key : i \in under}
    IN  [k \in keys |->
            LET mine == {i \in under : PairLines[lines[i]].key = k}
                last == CHOOSE i \in mine : \A j \in mine : j <= i
            IN  PairLines[lines[last]].value]

\* the options gathered so far by the call on profile A, or returned by it
GatheredOptions == IF ParseDone THEN result ELSE Frame.options

\* C22: a [section] line switches the current section, compared without regard to
\* case; a key=value line adds its key only while the current section is options:
\* the keys gathered are those of the pairs under a header of the options section,
\* so a pair above every header or under another section adds no key.
C22_SectionSwitch ==
    (Running \/ ParseDone) =>
        /\ DOMAIN GatheredOptions = DOMAIN PairsOf(text[PathA])
        /\ Running =>
               LET h == HeaderAbove(text[PathA], Len(text[PathA]) + 1) IN
               Frame.section = IF h = 0 THEN NoSection
                               ELSE IF text[PathA][h] \in OptionsHeaders THEN <<"options">>
                               ELSE <<"settings">>

\* a pair under [settings] was passed over and a pair under [OPTIONS] was recorded
C22_Witness ==
    /\ ParseDone
    /\ text[PathA] = <<"[settings]", "k=w", "[OPTIONS]", " j = 1 ">>
    /\ result = ("j" :> "1")

\* C23: under [options] a line is split at its first '=', so the value keeps the
\* later '=' characters; a leading &: is taken off the key, so &:k=v and k=v set
\* the same key k; of two lines of one file that set a key the later one wins.
C23_FirstEqualsAndScopeMarker ==
    (Running \/ ParseDone) => GatheredOptions = PairsOf(text[PathA])

\* &:k=v was followed by k=a=b: the one key k has the value a=b
C23_Witness ==
    /\ ParseDone
    /\ text[PathA] = <<"[OPTIONS]", "&:k=v", "k=a=b">>
    /\ result = ("k" :> "a=b")

\* the include directives of the repeat pools: the path each one names
IncludeOf ==
    ("include(A)" :> PathA) @@ ("include(B)" :> PathB) @@ ("include(C)" :> PathC)

\* this step reads, from the file of the innermost call, a directive that
\* includes the file at path g
IncludesNow(g) ==
    /\ Running
    /\ Len(text'[Frame.path]) = Len(text[Frame.path]) + 1
    /\ LET raw == text'[Frame.path][Len(text'[Frame.path])] IN
       raw \in DOMAIN IncludeOf /\ IncludeOf[raw] = g

\* C26: during one top-level call every profile path is opened for reading at
\* most once and is read only by the one call that opened it, whatever the
\* includes (repeated, or reaching a file along two ways); a directive that
\* includes a file already visited opens nothing and leaves every option gathered
\* so far as it is, the ones that were overwritten after the first visit included.
C26_ReadAtMostOnce ==
    [][/\ \A f \in Files : opened'[f] <= 1
       /\ \A f \in Files :
              text'[f] # text[f] => Running /\ Frame.path = f /\ opened[f] = 1
       /\ \A g \in Files :
              (IncludesNow(g) /\ g \in visited) =>
                  /\ opened' = opened
                  /\ visited' = visited
                  /\ [i \in 1..Len(stack') |-> stack'[i].options]
                         = [i \in 1..Len(stack) |-> stack[i].options]
       /\ \A g \in Files :
              (IncludesNow(g) /\ g \notin visited) =>
                  opened'[g] = 1 /\ g \in visited' /\ Len(stack') = Len(stack) + 1
      ]_vars

\* A includes C, overwrites the k of C, and includes C again directly and once
\* more through B: C was opened once and k keeps the value A gave it
C26_Witness ==
    /\ ParseDone
    /\ text[PathA] = <<"[options]", "include(C)", "k=2", "include(B)">>
    /\ text[PathB] = <<"include(C)">>
    /\ text[PathC] = <<"[options]", "k=1">>
    /\ opened[PathC] = 1
    /\ result = ("k" :> "2")

----------------------------------------------------------------------------
(* properties of generate_configurations *)

GenDone == gpc = "done"

\* the axis set the call looked up
Table == GetConfiguration(impl, ResolvePlatform(impl, arg, host))

RECURSIVE CountProduct(_)
\* n_1 * ... * n_k
CountProduct(axes) ==
    IF axes = <<>> THEN 1 ELSE Len(Head(axes)[2]) * CountProduct(Tail(axes))

\* a configuration with its dicts in place of the references to them
View(c) == [settings |-> c.settings, options |-> heap[c.options], buildenv |-> heap[c.buildenv]]

Views(list) == [i \in 1..Len(list) |-> View(list[i])]

\* the compilers of the MSVC family, under either naming of the tables
MsvcFamily(c) == c.settings["compiler"] \in {"msvc", "Visual Studio"}

\* the dynamic-runtime variants, under either naming of the tables
DynamicRuntime(c) ==
    /\ "compiler.runtime" \in DOMAIN c.settings
    /\ c.settings["compiler.runtime"] \in {"dynamic", "MD", "MDd"}

\* the rule of the binding overlay
BindingEligible(c) ==
    /\ c.settings["build_type"] # "Debug"
    /\ ~MsvcFamily(c) \/ DynamicRuntime(c)
    /\ ~(MsvcFamily(c) /\ ParseInt(c.settings["compiler.version"]) <= 12)

Count(list, Test(_)) == Len(SelectSeq(list, Test))

\* C4: for a defined platform family the base list has n_1*...*n_k entries and the
\* returned list has base + MSVC-family entries + binding-eligible entries + base
\* entries.
C4_ListSizes ==
    GenDone =>
        /\ Len(combinations) = CountProduct(Table[1])
        /\ Len(gresult) = Len(combinations) + Count(combinations, MsvcFamily)
                          + Count(combinations, BindingEligible) + Len(combinations)

\* C5: the binding overlay holds a copy with pybind = True of a base configuration
\* exactly when the base configuration is binding-eligible; an MSVC-family
\* configuration with a static runtime gets none.
C5_BindingOverlayRule ==
    GenDone =>
        \A i \in 1..Len(combinations) :
            (\E j \in 1..Len(pybind_updated_builds) :
                View(pybind_updated_builds[j]) =
                    [View(combinations[i]) EXCEPT !.options.pybind = TRUE])
            <=> BindingEligible(combinations[i])

WithTypedef(v) == [v EXCEPT !.options.wchar_t = "typedef"]

\* C6: the wide-char overlay is, in base order, one entry for every base
\* configuration of the MSVC-family compiler and none for any other, each equal to
\* its base configuration except that wchar_t is 'typedef'.
C6_WcharOverlay ==
    GenDone =>
        LET msvc == SelectSeq(combinations, MsvcFamily) IN
        Views(wchar_t_updated_builds) = [i \in 1..Len(msvc) |-> WithTypedef(View(msvc[i]))]

\* a packager run on the msvc table: every base entry got a wide-char entry
C6_Witness ==
    /\ GenDone
    /\ Len(wchar_t_updated_builds) = Len(combinations)
    /\ impl = "packager"

\* C7: the testing overlay is, in base order, one entry for every base
\* configuration, equal to it except that testing is True.
C7_TestingOverlay ==
    GenDone =>
        Views(testing_updated_builds) =
            [i \in 1..Len(combinations) |-> [View(combinations[i]) EXCEPT !.options.testing = TRUE]]

C7_Witness ==
    /\ GenDone
    /\ Len(testing_updated_builds) > Len(pybind_updated_builds)
    /\ \E i \in 1..Len(combinations) : combinations[i].settings["build_type"] = "Debug"

\* the overlay an entry belongs to, read off its option set: 0 base, 1 wide-char,
\* 2 binding, 3 testing
KindRank(c) ==
    LET o == heap[c.options] IN
    IF o.wchar_t = "typedef" THEN 1 ELSE IF o.pybind THEN 2 ELSE IF o.testing THEN 3 ELSE 0

\* the position of an entry's axis values in the cartesian product
BaseIndex(c) ==
    LET product == Product(Table[1]) IN
    CHOOSE i \in 1..Len(product) : product[i] = c.settings

\* C8: the returned list is base ++ wide-char ++ binding ++ testing: its first
\* entries are the cartesian product in product order, the overlays follow in that
\* order, inside an overlay the entries keep the order of their base
\* configurations, and no entry is dropped.
C8_ConcatenationOrder ==
    GenDone =>
        /\ Len(gresult) = Len(combinations) + Len(wchar_t_updated_builds)
                          + Len(pybind_updated_builds) + Len(testing_updated_builds)
        /\ \A i \in 1..Len(combinations) :
               /\ gresult[i].settings = Product(Table[1])[i]
               /\ KindRank(gresult[i]) = 0
        /\ \A i, j \in 1..Len(gresult) :
               i < j =>
                   /\ KindRank(gresult[i]) <= KindRank(gresult[j])
                   /\ KindRank(gresult[i]) = KindRank(gresult[j])
                          => BaseIndex(gresult[i]) < BaseIndex(gresult[j])

\* a returned list that holds entries of all four kinds
C8_Witness ==
    /\ GenDone
    /\ \A k \in 0..3 : \E i \in 1..Len(gresult) : KindRank(gresult[i]) = k

\* C9: after the return every base entry still has the default option set, no two
\* entries share an option dict, and every overlay entry has the axis values and
\* the environment set of a base entry.
C9_BaseNotMutated ==
    GenDone =>
        /\ \A i \in 1..Len(combinations) :
               /\ gresult[i] = combinations[i]
               /\ heap[gresult[i].options] = DefaultOptions
        /\ \A i, j \in 1..Len(gresult) : i # j => gresult[i].options # gresult[j].options
        /\ \A j \in (Len(combinations) + 1)..Len(gresult) :
               /\ heap[gresult[j].options] # DefaultOptions
               /\ \E i \in 1..Len(combinations) :
                      /\ gresult[j].settings = gresult[i].settings
                      /\ heap[gresult[j].buildenv] = heap[gresult[i].buildenv]

\* a return after overlays of all three kinds were built from the base entries
C9_Witness ==
    /\ GenDone
    /\ wchar_t_updated_builds # <<>>
    /\ pybind_updated_builds # <<>>
    /\ testing_updated_builds # <<>>
    /\ env["CI_COMMIT_TAG"] # Unset

\* the platform given is in the table of the implementation called
PlatformDefined == Table # <<>>

\* C10: for a platform family without an axis set the call fails with a
\* ConfigurationError and returns no list.
C10_UndefinedPlatformError ==
    (~PlatformDefined /\ gpc # "start") =>
        /\ gerr = "ConfigurationError"
        /\ gresult = <<>>
        /\ gpc = "raised"

\* the options of an entry that differ from the default option set
Changed(c) == {k \in DOMAIN DefaultOptions : heap[c.options][k] # DefaultOptions[k]}

\* C27: every entry of the returned list differs from the default option set
\* {wchar_t: 'builtin', pybind: False, testing: False} in at most one option: the
\* base entries in none, the entries of an overlay in the one option of that
\* overlay; and every overlay entry is a copy of a base entry, never of an overlay
\* entry, so no overlay is longer than the base list.
C27_OneOptionDiffers ==
    /\ \A i \in 1..Len(gresult) : Cardinality(Changed(gresult[i])) <= 1
    /\ \A i \in 1..Len(wchar_t_updated_builds) :
           Changed(wchar_t_updated_builds[i]) = {"wchar_t"}
    /\ \A i \in 1..Len(pybind_updated_builds) :
           Changed(pybind_updated_builds[i]) = {"pybind"}
    /\ \A i \in 1..Len(testing_updated_builds) :
           Changed(testing_updated_builds[i]) = {"testing"}
    /\ \A overlay \in {wchar_t_updated_builds, pybind_updated_builds,
                        testing_updated_builds} :
           /\ Len(overlay) <= Len(combinations)
           /\ \A j \in 1..Len(overlay) :
                  \E i \in 1..Len(combinations) :
                      /\ overlay[j].settings = combinations[i].settings
                      /\ Changed(combinations[i]) = {}

\* the list of the Visual Studio table was returned: it holds an entry with
\* wchar_t = 'typedef', one with pybind = True and one with testing = True
C27_Witness ==
    /\ GenDone
    /\ impl = "conan2_helpers"
    /\ \A k \in DOMAIN DefaultOptions :
           \E i \in 1..Len(gresult) : Changed(gresult[i]) = {k}

----------------------------------------------------------------------------
(* properties of _parse_bool_option *)

BoolDone == breturn # <<>>

\* the value is, up to the case of its letters, one of the words
EqualsIgnoringCase(value, words) == Lower(value) \in words

\* the words that count as true in the call
CountsAsTrue(allow) == IF allow THEN TrueValues \cup TrueAliases ELSE TrueValues

\* C11 as stated: None gives 'False'; a string gives 'True' exactly when it is,
\* compared case-insensitively, one of true, 1, yes, on, or builtin with aliases
\* allowed, and 'False' otherwise.  Violated: white space around the word is
\* removed first, so ' yes ' gives 'True'.
C11_CaseInsensitiveOnly ==
    BoolDone =>
        breturn[1] = IF bvalue # <<>> /\ EqualsIgnoringCase(bvalue[1], CountsAsTrue(ballow))
                     THEN "True" ELSE "False"

\* C11: None gives 'False'; a string gives 'True' exactly when, with the white
\* space around it removed and compared case-insensitively, it is one of true, 1,
\* yes, on, or builtin with aliases allowed; every other value gives 'False'.
C11_ParseBoolOption ==
    BoolDone =>
        /\ breturn[1] \in {"True", "False"}
        /\ bvalue = <<>> => breturn[1] = "False"
        /\ bvalue # <<>> =>
               (breturn[1] = "True" <=>
                    EqualsIgnoringCase(Strip(bvalue[1]), CountsAsTrue(ballow)))

\* a call on ' Yes ', a word with white space around it, returned 'True'
C11_Witness ==
    /\ BoolDone
    /\ bvalue = <<" Yes ">>
    /\ ~ballow
    /\ breturn = <<"True">>

----------------------------------------------------------------------------
(* properties of the build driver *)

MainReturned == dentry = "main" /\ dpc = "returned"
MainRaised == dentry = "main" /\ dpc = "raised"

\* the commands of the subprocess.run calls so far, in order
Commands == [i \in 1..Len(calls) |-> calls[i].cmd]

\* a list ends with the given items
EndsWithItems(list, items) ==
    /\ Len(list) >= Len(items)
    /\ SubSeq(list, Len(list) - Len(items) + 1, Len(list)) = items

\* C12: in a dry run main invokes no subprocess; a run that is no dry run and
\* returns has invoked exactly two, the install command first and the generation
\* command second, each with the argument list built for it; at no time has main
\* invoked anything but a prefix of these two.
C12_DryRunAndOrder ==
    dentry = "main" =>
        /\ args.dry_run => calls = <<>>
        /\ \E n \in 0..2 : Commands = SubSeq(<<conan_cmd, cmake_cmd>>, 1, n)
        /\ (MainReturned /\ ~args.dry_run) =>
               /\ Commands = <<conan_cmd, cmake_cmd>>
               /\ SubSeq(conan_cmd, 2, Len(conan_cmd)) =
                      <<"install", "-of", args.build_dir, "-pr", args.profile[1],
                        args.cmake_dir, "--build=missing">>
               /\ conan_cmd[1] = ResolveTool("conan")[1]
               /\ cmake_cmd[1] = ResolveTool("cmake")[1]
               /\ EndsWithItems(cmake_cmd,
                                my_cmake_options
                                    \o <<"-S", args.cmake_dir, "-B", args.build_dir>>)

\* a run that is no dry run returned after the install and the generation command
C12_Witness ==
    /\ MainReturned
    /\ ~args.dry_run
    /\ Len(calls) = 2
    /\ calls[1].cmd[2] = "install"
    /\ dexit = <<0>>

\* C13: a non-zero exit of either command is fatal and is not retried: the failed
\* call is the last one, main raises, the process exits with code 1; the
\* generation command is never invoked after a failed install, and no command
\* is invoked twice.
C13_FailurePropagated ==
    dentry = "main" =>
        /\ \A i \in 1..Len(calls) :
               calls[i].returncode # 0 =>
                   /\ i = Len(calls)
                   /\ MainRaised
                   /\ derr[1].type = "CalledProcessError"
                   /\ dexit \in {<<>>, <<1>>}
        /\ \A i, j \in 1..Len(calls) : i # j => calls[i].cmd # calls[j].cmd
        /\ (calls # <<>> /\ calls[1].returncode # 0) =>
               cmake_cmd \notin {Commands[i] : i \in 1..Len(calls)}

\* the install command exited with 1: one call, exit code 1
C13_Witness ==
    /\ MainRaised
    /\ Len(calls) = 1
    /\ calls[1].cmd = conan_cmd
    /\ calls[1].returncode = 1
    /\ dexit = <<1>>

RECURSIVE IsSubstringFrom(_, _, _)
IsSubstringFrom(part, s, i) ==
    IF i + Len(part) - 1 > Len(s) THEN FALSE
    ELSE SubSeq(s, i, i + Len(part) - 1) = part \/ IsSubstringFrom(part, s, i + 1)

\* part occurs in s
IsSubstring(part, s) == IsSubstringFrom(part, s, 1)

\* C17: get_args resolves the requested profile in this order: a bundled name
\* gives the bundled file, also when a local file of that name exists; otherwise
\* the path of an existing file gives its absolute path; otherwise, also when no
\* profile is given, it raises a validation error that lists the bundled names.
C17_ProfileResolution ==
    [][dpc = "get_args" =>
          LET requested == args.profile IN
          IF requested # <<>> /\ requested[1] \in bundled
          THEN /\ args'.profile = <<PathJoin(ProfilesDir, requested[1])>>
               /\ dpc' = "raised" => derr'[1].msg = CheckGenerator(args.generator)[1].msg
          ELSE IF requested # <<>> /\ Abspath(requested[1]) \in exists
          THEN /\ args'.profile = <<PathJoin(Cwd, requested[1])>>
               /\ dpc' = "raised" => derr'[1].msg = CheckGenerator(args.generator)[1].msg
          ELSE /\ dpc' = "raised"
               /\ derr'[1].type = "TypeError"
               /\ \A name \in bundled : IsSubstring(name, derr'[1].msg)
               /\ args' = args]_vars

\* the bundled profile P was chosen although the working directory has a file P
C17_Witness ==
    /\ dpc = "conan_install"
    /\ LocalP \in exists
    /\ args.profile = <<BundledP>>

\* main has left the derivation of the commands and the options behind
Derived == conan_cmd # <<>> /\ my_cmake_options # <<>> /\ cmake_cmd # <<>>

\* C29: main derives the install command, the option set and the generation
\* command before it starts any subprocess: a subprocess has run only when all
\* three are there, and a run that an error of the derivation ended (no valid
\* profile or generator, a tool not found, a missing directory of test files
\* without the tolerance flag) has started neither command.
C29_DerivedBeforeRun ==
    dentry = "main" =>
        /\ calls # <<>> => Derived /\ dpc \in {"conan_done", "returned", "raised"}
        /\ dpc \in {"get_args", "conan_install", "get_cmake_options", "profile_options",
                     "run_cmake", "execute"} => calls = <<>>
        /\ (MainRaised /\ derr[1].type # "CalledProcessError") =>
               /\ derr[1].type \in {"TypeError", "RuntimeError"}
               /\ ~Derived
               /\ calls = <<>>

\* the profile turns testing on, the directory of test files is missing and the
\* tolerance flag is not set: the install command was built and never started
C29_Witness ==
    /\ MainRaised
    /\ ~args.dry_run
    /\ ~args.allow_missing_test_files
    /\ derr = TestFilesMissing("./test_files")
    /\ conan_cmd # <<>>
    /\ calls = <<>>
    /\ dexit = <<1>>

----------------------------------------------------------------------------
(* properties of get_cmake_options *)

CmakeReturned == dentry = "get_cmake_options" /\ dpc = "returned"
CmakeRaised == dentry = "get_cmake_options" /\ dpc = "raised"
CmakeEnded == CmakeReturned \/ CmakeRaised

\* what the parsed profile enables
TestingEnabled == ConanOptions(result).testing = "True"
BindingEnabled == ConanOptions(result).pybind = "True"

\* the returned list has an option of the given name
HasOption(name) ==
    \E i \in 1..Len(my_cmake_options) : StartsWith(my_cmake_options[i], "-D" \o name \o "=")

\* the test files argument names a path, not the marker for no test files
NamesTestPath == TestFiles # "NONE"

\* the options a build gets whatever test files there are
OptionsWithoutTestPath ==
    SelectSeq(my_cmake_options, LAMBDA o : ~StartsWith(o, "-DXMS_TEST_PATH="))

\* C18 as stated: with testing enabled, a test files path that is no directory is
\* fatal without the allow-missing flag; with the flag it is no error and only the
\* test path option is left out; an existing path is emitted as an absolute path.
\* Violated when the profile enables binding too: the path is not looked at.
C18_TestPathTolerance ==
    (CmakeEnded /\ TestingEnabled /\ NamesTestPath) =>
        IF ~IsDir(TestFiles)
        THEN IF ~args.allow_missing_test_files
             THEN CmakeRaised /\ derr[1].type = "RuntimeError"
             ELSE /\ CmakeReturned
                  /\ ~HasOption("XMS_TEST_PATH")
                  /\ Len(my_cmake_options) = Len(OptionsWithoutTestPath)
        ELSE /\ CmakeReturned
             /\ \E i \in 1..Len(my_cmake_options) :
                    /\ my_cmake_options[i] = "-DXMS_TEST_PATH=" \o Abspath(TestFiles)
                    /\ IsAbs(Abspath(TestFiles))

\* C19 as stated: the python target version is added whenever the profile enables
\* binding, the test path whenever it enables testing and the path exists, and
\* both for a profile that enables both.  Violated: the test path is added only
\* when binding is not enabled.
C19_BothOptions ==
    CmakeReturned =>
        /\ BindingEnabled => HasOption("PYTHON_TARGET_VERSION")
        /\ (TestingEnabled /\ NamesTestPath /\ IsDir(TestFiles)) => HasOption("XMS_TEST_PATH")

----------------------------------------------------------------------------
(* properties of render_template_with_toml *)

RenderReturned == rpc = "returned"
RenderRaised == rpc = "raised"
RenderEnded == RenderReturned \/ RenderRaised

\* the call passes only keyword arguments the function has
Accepted == rargs.keywords \subseteq RenderParameters

\* the data file exists and is TOML
DataLoads == TomlPath \in DOMAIN contents /\ TomlLoads(contents[TomlPath]).err = NoError

\* the keys of the data mapping: those of the data file, the injected version and
\* the testing_framework default
DataKeys == DOMAIN TomlLoads(contents[TomlPath]).data \cup {"version", "testing_framework"}

\* the template directory argument names a directory
TemplateDirGiven == rargs.template_dir = "templates" /\ TemplateDir \in folders

\* the template files of the template directory
Templates == {SampleTemplate, OtherTemplate} \cap DOMAIN contents

RECURSIVE Variables(_)
\* the names a template source prints
Variables(source) ==
    LET open == FindSub(source, "{{", 1)
        close == FindSub(source, "}}", open + 2)
    IN  IF open = 0 \/ close = 0 THEN {}
        ELSE {Strip(SubSeq(source, open + 2, close - 1))}
                 \cup Variables(SubSeq(source, close + 2, Len(source)))

\* a template prints a variable the data mapping does not have
HasUndefined(t) == Variables(contents[t]) \ DataKeys # {}

\* where the output of a template goes
OutputOf(t) == "/p/output/" \o Stem(t)

\* the files of the output directory
Outputs == {f \in DOMAIN contents : StartsWith(f, "/p/output/")}

\* a call that has all it needs: data, a template directory with templates, and
\* every variable of every template in the data
WellFormed ==
    /\ DataLoads
    /\ TemplateDirGiven
    /\ Templates # {}
    /\ \A t \in Templates : ~HasUndefined(t)

\* C14 as stated: a call with dry_run set completes without error and leaves no
\* rendered file in output_dir; a call without it writes for each template the
\* rendered text, 'version=1.2.3\n' for the template 'version={{ version }}\n'.
\* Violated: the function has no dry_run parameter, the call raises TypeError.
C14_DryRunWritesNothing ==
    (RenderEnded /\ WellFormed) =>
        /\ RenderReturned
        /\ rargs.dry_run = <<TRUE>> => Outputs = {}
        /\ rargs.dry_run # <<TRUE>> =>
               /\ Outputs = {OutputOf(t) : t \in Templates}
               /\ (/\ SampleTemplate \in Templates
                   /\ contents[SampleTemplate] = "version={{ version }}\n") =>
                      contents[OutputOf(SampleTemplate)] = "version=1.2.3\n"

\* C15: a call fails with FileNotFoundError when the data file is missing, when
\* the template directory is missing or is no directory, and when the directory
\* of a call with a loadable data file has no template file; no file is written
\* in any of these cases.  The call passes the four parameters of the function.
C15_NotFoundErrors ==
    (RenderEnded /\ Accepted) =>
        LET data_missing == TomlPath \notin DOMAIN contents
            dir_missing == ~TemplateDirGiven
            no_templates == DataLoads /\ TemplateDirGiven /\ Templates = {}
        IN  (data_missing \/ dir_missing \/ no_templates) =>
                /\ RenderRaised
                /\ rerr[1].type = "FileNotFoundError"
                /\ written = <<>>
                /\ Outputs = {}

\* the template directory holds a file, but no template: the call raised
C15_Witness ==
    /\ RenderRaised
    /\ Accepted
    /\ DataLoads
    /\ TemplateDirGiven
    /\ NotesFile \in DOMAIN contents
    /\ Templates = {}
    /\ rerr[1].type = "FileNotFoundError"

\* C16: a template that prints a variable absent from the data mapping (the data
\* file's keys, version, testing_framework) has no output file at any time, the
\* call that reaches it raises UndefinedError, and so every call with such a
\* template ends with that error; what is written never stands for a template
\* with an absent variable.
C16_StrictUndefined ==
    (Accepted /\ DataLoads /\ TemplateDirGiven) =>
        /\ \A t \in Templates : HasUndefined(t) => OutputOf(t) \notin DOMAIN contents
        /\ \A i \in 1..Len(written) :
               \E t \in Templates : written[i].path = OutputOf(t) /\ ~HasUndefined(t)
        /\ (RenderEnded /\ \E t \in Templates : HasUndefined(t)) =>
               RenderRaised /\ rerr[1].type = "UndefinedError"

\* the first template was written, the second prints an absent variable: the call
\* raised and left the first output
C16_Witness ==
    /\ RenderRaised
    /\ rerr[1].type = "UndefinedError"
    /\ Len(written) = 1
    /\ HasUndefined(SampleTemplate)
    /\ OutputOf(SampleTemplate) \notin DOMAIN contents

\* the templates of the directory in the order of their names, and the output
\* file of each
TemplatesInOrder == SelectSeq(<<OtherTemplate, SampleTemplate>>, LAMBDA t : t \in Templates)
OutputName ==
    (OtherTemplate :> "/p/output/a.txt") @@ (SampleTemplate :> "/p/output/sample.txt")

\* what the template texts give with the data of a call that renders them all
RenderedText ==
    ("version={{ version }}\n" :> "version=1.2.3\n") @@
    ("name={{ library_name }}\n" :> "name=xmscore\n") @@
    ("fw={{testing_framework}} {{ description }}" :> "fw=cxxtest desc")

\* the files the call was given
InputFiles == {TomlPath, SampleTemplate, OtherTemplate, NotesFile}

\* C25: a call that returns has rendered every template file of template_dir
\* once, in the order of the names, and has written each result into output_dir
\* under the name of the template without its .jinja suffix; it has written no
\* other file.
C25_EveryTemplateOnce ==
    RenderReturned =>
        /\ Len(written) = Len(TemplatesInOrder)
        /\ \A i \in 1..Len(written) :
               /\ written[i].path = OutputName[TemplatesInOrder[i]]
               /\ written[i].content = RenderedText[contents[TemplatesInOrder[i]]]
               /\ contents[written[i].path] = written[i].content
        /\ DOMAIN contents \ InputFiles = {OutputName[t] : t \in Templates}

\* a call on a directory with both templates returned: a.txt was written first,
\* sample.txt second
C25_Witness ==
    /\ RenderReturned
    /\ written = <<[path |-> "/p/output/a.txt", content |-> "name=xmscore\n"],
                   [path |-> "/p/output/sample.txt", content |-> "version=1.2.3\n"]>>

\* the call failed while it rendered a template
FailedInLoop == RenderRaised /\ template_files # <<>>

\* C30: each output is written as soon as its template is rendered, in the order
\* of the template names, and nothing is rolled back: at any time of the loop the
\* outputs of the templates before the current one are written and are in
\* output_dir, and no output of the current or a later template is; so when the
\* rendering of the k-th template fails, the first k-1 outputs stay and the
\* others do not exist.
C30_NoRollback ==
    (rpc = "render" \/ FailedInLoop) =>
        /\ template_files = TemplatesInOrder
        /\ Len(written) = ri - 1
        /\ FailedInLoop => ri <= Len(template_files)
        /\ \A i \in 1..Len(template_files) :
               IF i < ri
               THEN /\ written[i].path = OutputName[template_files[i]]
                    /\ OutputName[template_files[i]] \in DOMAIN contents
                    /\ contents[OutputName[template_files[i]]] = written[i].content
               ELSE OutputName[template_files[i]] \notin DOMAIN contents

\* the rendering of the second of two templates failed: the output of the first
\* is in output_dir, that of the second is not
C30_Witness ==
    /\ FailedInLoop
    /\ ri = 2
    /\ Len(template_files) = 2
    /\ contents["/p/output/a.txt"] = "name=xmscore\n"
    /\ "/p/output/sample.txt" \notin DOMAIN contents

----------------------------------------------------------------------------
(* properties of XmsConanPackager.run and of create_build_profile *)

\* the configurations of the generated list for which the tool fails
FailingNumbers == tool \cap (1..Len(gresult))

\* the first of them
FirstFailing == CHOOSE i \in FailingNumbers : \A j \in FailingNumbers : i <= j

\* C24: a run of the packager in which the tool exits with a non-zero code for some
\* configuration ends at once with a fatal error: the configurations before the
\* first failing one were built, the failing one was tried once and not retried,
\* and no later configuration was built.
C24_FailureIsFatal ==
    (kpc \in {"returned", "raised"} /\ FailingNumbers # {}) =>
        /\ kpc = "raised"
        /\ [i \in 1..Len(built) |-> built[i].number] = [i \in 1..FirstFailing |-> i]
        /\ built[FirstFailing].returncode # 0

\* C28: the profile written by create_build_profile for a generated configuration,
\* read back by _parse_profile_options, gives exactly the keys wchar_t, pybind and
\* testing, each with the string form of the configuration's value, and no key of
\* the settings or of the build environment.
C28_RoundTrip ==
    (kpc = "parse" /\ pstate = "done") =>
        LET c == configuration[1]
            o == heap[c.options]
        IN
        /\ DOMAIN result = {"wchar_t", "pybind", "testing"}
        /\ result["wchar_t"] = o.wchar_t
        /\ result["pybind"] = (IF o.pybind THEN "True" ELSE "False")
        /\ result["testing"] = (IF o.testing THEN "True" ELSE "False")
        /\ DOMAIN result \cap (DOMAIN c.settings \cup DOMAIN heap[c.buildenv]) = {}

\* the packager's profile of a wide-char overlay entry, with a build environment
\* value that holds ':' and '/', was written and read back
C28_Witness ==
    /\ kpc = "parse"
    /\ pstate = "done"
    /\ impl = "packager"
    /\ profile_path = <<"/tmp/tmp0/temp_profile">>
    /\ env["AQUAPI_URL"] = <<"https://aquapi">>
    /\ heap[configuration[1].options].wchar_t = "typedef"
    /\ result = [wchar_t |-> "typedef", pybind |-> "False", testing |-> "False"]

----------------------------------------------------------------------------
(* properties of the two scripts *)

\* the command lines argparse does not accept, for each script
RejectedByDriver ==
    {<<"--bogus">>, <<"--p", "P">>, <<"-p", "P", "extra">>, <<"--quiet=1", "-p", "P">>}
RejectedByGenerator ==
    {<<>>, <<"--template_dir">>, <<"--version", "build.toml">>, <<"build.toml", "--bogus">>}

\* the command line of the script that runs is one argparse does not accept
Rejected ==
    \/ dentry = "main" /\ argv \in RejectedByDriver
    \/ dentry = "xmsconan_gen" /\ argv \in RejectedByGenerator

\* an exception left main of the driver, or a call of the renderer
ExceptionEscaped == derr # <<>> \/ rerr # <<>>

\* the message of that exception
EscapedMessage == IF derr # <<>> THEN derr[1].msg ELSE rerr[1].msg

\* C21 as stated: a script that has ended has exit code 1 and a message on the error
\* stream when an error escaped its work, a rejected command line included, and
\* exit code 0 otherwise.
C21_ExitOneOrZero ==
    dexit # <<>> =>
        IF ExceptionEscaped \/ Rejected
        THEN dexit = <<1>> /\ stderr # <<>>
        ELSE dexit = <<0>>

\* C21: a script that has ended has exit code 2 and a usage error on the error
\* stream when argparse rejected its command line, before any work; exit code 1
\* and the message 'Error: ...' when an exception escaped the work that followed
\* (an unknown profile, a missing data file, a tool that failed); and exit code
\* 0 with an empty error stream otherwise.
C21_ExitCodes ==
    dexit # <<>> =>
        /\ IF Rejected
           THEN /\ dexit = <<2>>
                /\ Len(stderr) = 1
                /\ ~ExceptionEscaped
                /\ calls = <<>>
                /\ written = <<>>
           ELSE IF ExceptionEscaped
           THEN dexit = <<1>> /\ stderr = <<"Error: " \o EscapedMessage>>
           ELSE dexit = <<0>> /\ stderr = <<>>
        /\ (\E i \in 1..Len(calls) : calls[i].returncode # 0) => dexit = <<1>>
        /\ (dentry = "main" /\ argv = <<"-p", "nope">>) => dexit = <<1>>
        /\ (dentry = "xmsconan_gen" /\ argv = <<"build.toml">>
                /\ Abspath("build.toml") \notin DOMAIN contents) => dexit = <<1>>

\* the generator ended with code 1 after its second call failed: the outputs of
\* the first call are there
C21_Witness ==
    /\ dentry = "xmsconan_gen"
    /\ argv = <<"--template_dir", "templates", "--output_dir", "output", "build.toml">>
    /\ dexit = <<1>>
    /\ rargs.template_dir = "templates/_package"
    /\ written # <<>>
    /\ Len(stderr) = 1

====
